---- MODULE Spec2Model ----
(***************************************************************************)
(* Verification model of BitSwanPump / ASAB:                               *)
(*   - asab/application.py      Application life cycle and governors       *)
(*   - bspump/asab/alert.py     alert providers and AlertService           *)
(*   - bspump/ldap/source.py    LDAPSource.cycle                           *)
(*   - asab/metrics/metrics.py  the metric classes                         *)
(*   - bspump/declarative/expression/logical  AND and EQUALS               *)
(*   - asab/library/providers/filesystem.py  inotify event aggregation     *)
(*   - bspump/mysql/lookup.py   MySQLLookup and its cache                  *)
(* Each subsystem has its own specification over its own variables; the    *)
(* variables of the other subsystems stay at their initial values.         *)
(***************************************************************************)
EXTENDS Integers, Sequences, FiniteSets, TLC

(***************************************************************************)
(* Bounds of the model                                                     *)
(***************************************************************************)
\* ticks of the run-time governor that are counted (later ticks repeat the
\* waiting state and are not recorded)
MaxTicks == 300
\* services / modules registered with the application
MaxServices == 1
MaxModules == 1
\* configured alert providers ("asab:alert:..." sections)
NProviders == 1
\* alerts passed to AlertService.trigger
MaxAlerts == 2
\* worker tasks a provider creates over its life (restarts included)
MaxWorkers == 3
\* pages the LDAP server returns for one search, and entries per page
MaxPages == 2
MaxPageSize == 2
\* cycles of the LDAP source that are started
MaxCycles == 2
\* the latest reading of the clock (seconds)
MaxClock == 2
\* calls of set and flush on the DutyCycle metric
MaxCalls == 3
\* [asab:metrics] expiration (seconds)
Expiration == 1
\* seconds that may pass between the caller of flush(now) reading `now` and
\* flush reading App.time()
MaxFlushLag == 1
\* calls of the write methods of a Gauge or Counter metric
MaxCtWrites == 2
\* calls of flush on a Gauge or Counter metric
MaxCtFlushes == 2
\* calls of Histogram.set
MaxHistWrites == 3
\* calls of Histogram.flush
MaxHistFlushes == 1
\* the longest bucket list a Histogram is constructed with
MaxBuckets == 3
\* the longest list of items of an AND or EQUALS expression
MaxItems == 3
\* inotify watches the library provider adds
MaxWatches == 3
\* inotify events one os.read returns
MaxBatch == 2
\* runs of _on_inotify_read and of _on_aggr_timer
MaxReads == 2
MaxFires == 2
\* rows of the table a MySQLLookup reads
MaxRows == 2
\* calls of MySQLLookup.__getitem__, and of __iter__ and __next__
MaxLookups == 3
MaxIterCalls == 3

(***************************************************************************)
(* Program constants                                                       *)
(***************************************************************************)
\* application.py:211-218, the periods of the Application.tick/N! topics
TickDivisors == {10, 60, 300, 600, 1800, 3600, 43200, 86400}
\* application.py:138, `if self._stop_counter >= 3`
EmergencyStopCount == 3

VARIABLES
    \* ---- asab/application.py ----
    phase,          \* "init" | "constructed" | "run" | "exit" | "closed"
    initTask,       \* task of initialize():  "start" | "awaiting" | "done" | "raised"
    initGov,        \* task of _init_time_governor: "start" | "done"
    mainTask,       \* task of main(): "none" | "start" | "awaiting" | "done" | "raised"
    govPc,          \* _run_time_governor: "none" | "start" | "wait" | "done"
    cycle_no,       \* loop variable of the governor (itertools.count(1))
    stop_event,     \* self._stop_event.is_set()
    stop_counter,   \* self._stop_counter
    stopCalls,      \* history: number of calls of stop() since construction
    emergency,      \* os._exit(EX_SOFTWARE) was executed
    published,      \* history: number of publications per topic
    finTask,        \* task of finalize(): "none" | "start" | "awaiting" | "done" | "raised"
    exitGov,        \* _exit_time_governor: "none" | "start" | "services" | "modules" | "done"
    svcFin,         \* per service, its finalize future: "none" | "running" | "done"
    modFin,         \* per module, its finalize future: "none" | "running" | "done"
    nServices,      \* len(self.Services)
    nModules,       \* len(self.Modules)
    exitCode,       \* value returned by run(); -1 while run() has not returned
    \* ---- bspump/asab/alert.py ----
    alertPhase,     \* AlertService: "constructed" | "initializing" | "initialized"
                    \*               | "finalizing" | "finalized"
    provInit,       \* per provider: its initialize() coroutine has run
    provFin,        \* per provider: its finalize() coroutine has run
    Queue,          \* per provider: self.Queue, the alerts waiting in it
    MainTask,       \* per provider: self.MainTask, an index into tasks or None
    tasks,          \* per provider: every task created by _start_main_task
    taken,          \* history, per provider: alerts returned by Queue.get()
    nextAlert,      \* history: the number of the next alert to be triggered
    \* ---- bspump/ldap/source.py ----
    ldapPages,      \* the server's answer: the number of entries of each page
    srcPc,          \* LDAPSource.cycle: "idle" | "ready" | "search" | "process"
    cookie,         \* paging cookie: pages already fetched, 0 for b""
    page,           \* the page the for loop iterates over
    entryIdx,       \* position of the for loop in the page
    cycles,         \* history: cycles started
    ThrottleOwners, \* Pipeline: the throttle owners; ready iff empty
    delivered,      \* history: the events the pipeline received, in order
    readyAwaited,   \* history: an await of Pipeline.ready() has resolved since
                    \* the last emission
    readySince,     \* history: the pipeline was ready at some moment since the
                    \* last emission
    \* ---- asab/metrics/metrics.py, DutyCycle ----
    clock,          \* the current time (Loop.time(), App.time())
    dcInit,         \* self.Init: per name of init_values, in order, its record
    dcFieldset,     \* self.Storage["fieldset"]
    dcError,        \* the exception the last operation raised, "none" if none
    dcCalls,        \* the number of calls of set and flush so far
    dcLast,         \* history: the last operation, its `now` and, for a
                    \* write, its arguments and the index of the field
                    \* it located
    \* ---- asab/metrics/metrics.py, Gauge and the Counter family ----
    ctKind,         \* the class of the metric
    ctReset,        \* self.Storage.get("reset") is True
    ctInit,         \* self.Init: None or a dict of initial values
    ctStatic,       \* self.StaticTags
    ctFieldset,     \* self.Storage["fieldset"]
    ctLastTime,     \* EPSCounter: self.LastTime
    ctTime,         \* the current time (App.time(), time.time())
    ctWrites,       \* the number of calls of write methods so far
    ctFlushes,      \* the number of calls of flush so far
    ctLast,         \* history: the last operation and its arguments
    \* ---- asab/metrics/metrics.py, Histogram ----
    hPc,            \* "new" before __init__, then "constructed" or "ValueError"
    hArg,           \* the `buckets` argument of __init__
    hBuckets,       \* the list _buckets of __init__
    hKeys,          \* the keys of self.InitBuckets
    hReset,         \* self.Storage.get("reset") is True
    hFieldset,      \* self.Storage["fieldset"]
    hTime,          \* the current time (App.time())
    hWrites,        \* the number of calls of set so far
    hFlushes,       \* the number of calls of flush so far
    hLast,          \* history: the last operation and its arguments
    \* ---- bspump/declarative/expression/logical ----
    exClass,        \* the class of the expression: "AND" | "EQUALS"
    exItems,        \* self.Items: per item, the value it evaluates to on
                    \* (context, event)
    exObjTruthy,    \* bool(item) of an Expression object
    exPc,           \* "built" | "called"
    exResult,       \* what __call__ returned or raised
    exEvaluated,    \* history: the items __call__ evaluated, in order
    \* ---- asab/library/providers/filesystem.py ----
    fsWDs,          \* self.WDs: per watch descriptor 1, 2, ... its
                    \* subscribed path
    fsAggrEvents,   \* self.AggrEvents: the watch descriptors of the buffered
                    \* events, in order
    fsTimer,        \* self.AggrTimer is started
    fsError,        \* the exception the last handler raised, "none" if none
    fsPublished,    \* history: per path, the ASABLibrary.change! messages
                    \* the last run of _on_aggr_timer published
    fsReads,        \* the number of runs of _on_inotify_read so far
    fsFires,        \* the number of runs of _on_aggr_timer so far
    \* ---- bspump/mysql/lookup.py ----
    lkTable,        \* the rows the database holds, in the order it returns them
    lkCache,        \* self.Cache: per key, whether it is cached and the value
    lkIterator,     \* self.Iterator: whether it exists and the rows left
    lkCounter,      \* self.CacheCounter: the sum of the additions per name
    lkQueries,      \* history: per key, the calls of _find_one
    lkLookups,      \* history: the number of calls of __getitem__
    lkIterCalls,    \* the number of calls of __iter__ and __next__
    lkLast          \* history: the last operation, its key and what it
                    \* returned

appVars == <<phase, initTask, initGov, mainTask, govPc, cycle_no, stop_event,
             stop_counter, stopCalls, emergency, published, finTask, exitGov,
             svcFin, modFin, nServices, nModules, exitCode>>

alertVars == <<alertPhase, provInit, provFin, Queue, MainTask, tasks, taken,
               nextAlert>>

ldapVars == <<ldapPages, srcPc, cookie, page, entryIdx, cycles,
              ThrottleOwners, delivered, readyAwaited, readySince>>

dcVars == <<clock, dcInit, dcFieldset, dcError, dcCalls, dcLast>>

ctVars == <<ctKind, ctReset, ctInit, ctStatic, ctFieldset, ctLastTime, ctTime,
            ctWrites, ctFlushes, ctLast>>

hVars == <<hPc, hArg, hBuckets, hKeys, hReset, hFieldset, hTime, hWrites,
           hFlushes, hLast>>

exVars == <<exClass, exItems, exObjTruthy, exPc, exResult, exEvaluated>>

fsVars == <<fsWDs, fsAggrEvents, fsTimer, fsError, fsPublished, fsReads,
            fsFires>>

lkVars == <<lkTable, lkCache, lkIterator, lkCounter, lkQueries, lkLookups,
            lkIterCalls, lkLast>>

vars == <<appVars, alertVars, ldapVars, dcVars, ctVars, hVars, exVars, fsVars,
          lkVars>>

\* the variables of the other subsystems
nonAppVars ==
    <<alertVars, ldapVars, dcVars, ctVars, hVars, exVars, fsVars, lkVars>>
nonAlertVars ==
    <<appVars, ldapVars, dcVars, ctVars, hVars, exVars, fsVars, lkVars>>
nonLdapVars ==
    <<appVars, alertVars, dcVars, ctVars, hVars, exVars, fsVars, lkVars>>
nonDcVars ==
    <<appVars, alertVars, ldapVars, ctVars, hVars, exVars, fsVars, lkVars>>
nonCtVars ==
    <<appVars, alertVars, ldapVars, dcVars, hVars, exVars, fsVars, lkVars>>
nonHVars ==
    <<appVars, alertVars, ldapVars, dcVars, ctVars, exVars, fsVars, lkVars>>
nonExVars ==
    <<appVars, alertVars, ldapVars, dcVars, ctVars, hVars, fsVars, lkVars>>
nonFsVars ==
    <<appVars, alertVars, ldapVars, dcVars, ctVars, hVars, exVars, lkVars>>
nonLkVars ==
    <<appVars, alertVars, ldapVars, dcVars, ctVars, hVars, exVars, fsVars>>

(***************************************************************************)
(* asab/application.py                                                     *)
(***************************************************************************)
NoPublications ==
    [init |-> 0, run |-> 0, exit |-> 0, tick |-> 0,
     tickN |-> [N \in TickDivisors |-> 0]]

\* the event loop is inside run_until_complete(): tasks and signal handlers run
LoopRunning == phase \in {"init", "run", "exit"} /\ ~emergency

\* Application.__init__ up to the start of the init-time governor
AppInit ==
    /\ phase = "init"
    /\ initTask = "start"
    /\ initGov = "start"
    /\ mainTask = "none"
    /\ govPc = "none"
    /\ cycle_no = 0
    /\ stop_event = FALSE
    /\ stop_counter = 0
    /\ stopCalls = 0
    /\ emergency = FALSE
    /\ published = NoPublications
    /\ finTask = "none"
    /\ exitGov = "none"
    /\ nServices \in 0..MaxServices
    /\ nModules \in 0..MaxModules
    /\ svcFin = [s \in 1..MaxServices |-> "none"]
    /\ modFin = [m \in 1..MaxModules |-> "none"]
    /\ exitCode = -1

\* Application.stop, installed as the SIGINT / SIGTERM handler of the loop
stop ==
    /\ LoopRunning
    /\ stop_event' = TRUE
    /\ stop_counter' = stop_counter + 1
    /\ stopCalls' = stopCalls + 1
    /\ emergency' = (stop_counter + 1 >= EmergencyStopCount)
    /\ UNCHANGED <<phase, initTask, initGov, mainTask, govPc, cycle_no,
                   published, finTask, exitGov, svcFin, modFin, nServices,
                   nModules, exitCode>>
    /\ UNCHANGED nonAppVars

\* Application.initialize(): the overridable life-cycle callback
initialize ==
    /\ LoopRunning /\ phase = "init"
    /\ \/ initTask = "start" /\ initTask' \in {"awaiting", "done", "raised"}
       \/ initTask = "awaiting" /\ initTask' \in {"done", "raised"}
    /\ UNCHANGED <<phase, initGov, mainTask, govPc, cycle_no, stop_event,
                   stop_counter, stopCalls, emergency, published, finTask,
                   exitGov, svcFin, modFin, nServices, nModules, exitCode>>
    /\ UNCHANGED nonAppVars

init_time_governor ==
    /\ LoopRunning /\ phase = "init"
    /\ initGov = "start"
    /\ published' = [published EXCEPT !.init = @ + 1]
    /\ initGov' = "done"
    /\ UNCHANGED <<phase, initTask, mainTask, govPc, cycle_no, stop_event,
                   stop_counter, stopCalls, emergency, finTask, exitGov,
                   svcFin, modFin, nServices, nModules, exitCode>>
    /\ UNCHANGED nonAppVars

\* asyncio.wait(..., return_when=FIRST_EXCEPTION) of __init__ returns
init_complete ==
    /\ LoopRunning /\ phase = "init"
    /\ initGov = "done"
    /\ initTask \in {"done", "raised"}
    /\ phase' = "constructed"
    /\ UNCHANGED <<initTask, initGov, mainTask, govPc, cycle_no, stop_event,
                   stop_counter, stopCalls, emergency, published, finTask,
                   exitGov, svcFin, modFin, nServices, nModules, exitCode>>
    /\ UNCHANGED nonAppVars

\* Application.run up to the first run_until_complete
run_resetting_counter ==
    /\ phase = "constructed" /\ ~emergency
    /\ stop_event' = FALSE
    /\ stop_counter' = 0
    /\ phase' = "run"
    /\ mainTask' = "start"
    /\ govPc' = "start"
    /\ UNCHANGED <<initTask, initGov, cycle_no, stopCalls, emergency,
                   published, finTask, exitGov, svcFin, modFin, nServices,
                   nModules, exitCode>>
    /\ UNCHANGED nonAppVars

run ==
    /\ phase = "constructed" /\ ~emergency
    /\ stop_event' = FALSE
    /\ phase' = "run"
    /\ mainTask' = "start"
    /\ govPc' = "start"
    /\ UNCHANGED <<initTask, initGov, cycle_no, stop_counter, stopCalls,
                   emergency, published, finTask, exitGov, svcFin, modFin,
                   nServices, nModules, exitCode>>
    /\ UNCHANGED nonAppVars

\* Application.main(): the overridable life-cycle callback
main ==
    /\ LoopRunning /\ phase = "run"
    /\ \/ mainTask = "start" /\ mainTask' \in {"awaiting", "done", "raised"}
       \/ mainTask = "awaiting" /\ mainTask' \in {"done", "raised"}
    /\ UNCHANGED <<phase, initTask, initGov, govPc, cycle_no, stop_event,
                   stop_counter, stopCalls, emergency, published, finTask,
                   exitGov, svcFin, modFin, nServices, nModules, exitCode>>
    /\ UNCHANGED nonAppVars

\* _run_time_governor, first step: publish run! and enter the loop
run_time_governor_start ==
    /\ LoopRunning
    /\ govPc = "start"
    /\ published' = [published EXCEPT !.run = @ + 1]
    /\ cycle_no' = 1
    /\ govPc' = "wait"
    /\ UNCHANGED <<phase, initTask, initGov, mainTask, stop_event,
                   stop_counter, stopCalls, emergency, finTask, exitGov,
                   svcFin, modFin, nServices, nModules, exitCode>>
    /\ UNCHANGED nonAppVars

\* the tick/N! topics the governor publishes in the iteration `cycle`
TickTopics_from_zero(cycle) == {N \in TickDivisors : ((cycle - 1) % N) = 0}

TickTopics(cycle) == {N \in TickDivisors : (cycle % N) = 0}

\* _run_time_governor, `except asyncio.TimeoutError:` branch
run_time_governor_tick ==
    /\ LoopRunning
    /\ govPc = "wait"
    /\ ~stop_event
    /\ cycle_no <= MaxTicks
    /\ published' = [published EXCEPT
                        !.tick = @ + 1,
                        !.tickN = [N \in TickDivisors |->
                                     IF N \in TickTopics(cycle_no)
                                     THEN @[N] + 1 ELSE @[N]]]
    /\ cycle_no' = cycle_no + 1
    /\ UNCHANGED <<phase, initTask, initGov, mainTask, govPc, stop_event,
                   stop_counter, stopCalls, emergency, finTask, exitGov,
                   svcFin, modFin, nServices, nModules, exitCode>>
    /\ UNCHANGED nonAppVars

\* _run_time_governor, the wait for the stop event returned: break, finally
run_time_governor_break ==
    /\ LoopRunning
    /\ govPc = "wait"
    /\ stop_event
    /\ govPc' = "done"
    /\ UNCHANGED <<phase, initTask, initGov, mainTask, cycle_no, stop_event,
                   stop_counter, stopCalls, emergency, published, finTask,
                   exitGov, svcFin, modFin, nServices, nModules, exitCode>>
    /\ UNCHANGED nonAppVars

\* asyncio.wait(..., return_when=FIRST_EXCEPTION) of run() returns; the exit
\* phase is commenced
run_complete ==
    /\ LoopRunning /\ phase = "run"
    /\ govPc # "start" /\ mainTask # "start"
    /\ \/ mainTask = "raised"
       \/ mainTask = "done" /\ govPc = "done"
    /\ phase' = "exit"
    /\ finTask' = "start"
    /\ exitGov' = "start"
    /\ UNCHANGED <<initTask, initGov, mainTask, govPc, cycle_no, stop_event,
                   stop_counter, stopCalls, emergency, published, svcFin,
                   modFin, nServices, nModules, exitCode>>
    /\ UNCHANGED nonAppVars

\* Application.finalize(): the overridable life-cycle callback
finalize ==
    /\ LoopRunning /\ phase = "exit"
    /\ \/ finTask = "start" /\ finTask' \in {"awaiting", "done", "raised"}
       \/ finTask = "awaiting" /\ finTask' \in {"done", "raised"}
    /\ UNCHANGED <<phase, initTask, initGov, mainTask, govPc, cycle_no,
                   stop_event, stop_counter, stopCalls, emergency, published,
                   exitGov, svcFin, modFin, nServices, nModules, exitCode>>
    /\ UNCHANGED nonAppVars

SpawnModules == [m \in 1..MaxModules |-> IF m <= nModules THEN "running" ELSE "none"]
SpawnServices == [s \in 1..MaxServices |-> IF s <= nServices THEN "running" ELSE "none"]

\* _exit_time_governor, first step: publish exit!, start the service finalizers
exit_time_governor_start ==
    /\ LoopRunning /\ phase = "exit"
    /\ exitGov = "start"
    /\ published' = [published EXCEPT !.exit = @ + 1]
    /\ IF nServices > 0
       THEN svcFin' = SpawnServices /\ exitGov' = "services" /\ modFin' = modFin
       ELSE /\ svcFin' = svcFin
            /\ IF nModules > 0
               THEN modFin' = SpawnModules /\ exitGov' = "modules"
               ELSE modFin' = modFin /\ exitGov' = "done"
    /\ UNCHANGED <<phase, initTask, initGov, mainTask, govPc, cycle_no,
                   stop_event, stop_counter, stopCalls, emergency, finTask,
                   nServices, nModules, exitCode>>
    /\ UNCHANGED nonAppVars

\* service.finalize(app) of one service completes
service_finalize(s) ==
    /\ LoopRunning /\ phase = "exit"
    /\ svcFin[s] = "running"
    /\ svcFin' = [svcFin EXCEPT ![s] = "done"]
    /\ UNCHANGED <<phase, initTask, initGov, mainTask, govPc, cycle_no,
                   stop_event, stop_counter, stopCalls, emergency, published,
                   finTask, exitGov, modFin, nServices, nModules, exitCode>>
    /\ UNCHANGED nonAppVars

\* an exit-time governor that does not wait for the finalize of the services
exit_time_governor_services_unawaited ==
    /\ LoopRunning /\ phase = "exit"
    /\ exitGov = "services"
    /\ IF nModules > 0
       THEN modFin' = SpawnModules /\ exitGov' = "modules"
       ELSE modFin' = modFin /\ exitGov' = "done"
    /\ UNCHANGED <<phase, initTask, initGov, mainTask, govPc, cycle_no,
                   stop_event, stop_counter, stopCalls, emergency, published,
                   finTask, svcFin, nServices, nModules, exitCode>>
    /\ UNCHANGED nonAppVars

\* _exit_time_governor, after `await asyncio.wait(futures)` of the services
exit_time_governor_services_done ==
    /\ LoopRunning /\ phase = "exit"
    /\ exitGov = "services"
    /\ \A s \in 1..nServices : svcFin[s] = "done"
    /\ IF nModules > 0
       THEN modFin' = SpawnModules /\ exitGov' = "modules"
       ELSE modFin' = modFin /\ exitGov' = "done"
    /\ UNCHANGED <<phase, initTask, initGov, mainTask, govPc, cycle_no,
                   stop_event, stop_counter, stopCalls, emergency, published,
                   finTask, svcFin, nServices, nModules, exitCode>>
    /\ UNCHANGED nonAppVars

\* module.finalize(app) of one module completes
module_finalize(m) ==
    /\ LoopRunning /\ phase = "exit"
    /\ modFin[m] = "running"
    /\ modFin' = [modFin EXCEPT ![m] = "done"]
    /\ UNCHANGED <<phase, initTask, initGov, mainTask, govPc, cycle_no,
                   stop_event, stop_counter, stopCalls, emergency, published,
                   finTask, exitGov, svcFin, nServices, nModules, exitCode>>
    /\ UNCHANGED nonAppVars

\* _exit_time_governor, after `await asyncio.wait(futures)` of the modules
exit_time_governor_modules_done ==
    /\ LoopRunning /\ phase = "exit"
    /\ exitGov = "modules"
    /\ \A m \in 1..nModules : modFin[m] = "done"
    /\ exitGov' = "done"
    /\ UNCHANGED <<phase, initTask, initGov, mainTask, govPc, cycle_no,
                   stop_event, stop_counter, stopCalls, emergency, published,
                   finTask, svcFin, modFin, nServices, nModules, exitCode>>
    /\ UNCHANGED nonAppVars

\* asyncio.wait of the exit phase returns, Loop.close(), return os.EX_OK
run_return ==
    /\ LoopRunning /\ phase = "exit"
    /\ exitGov # "start" /\ finTask # "start"
    /\ \/ finTask = "raised"
       \/ finTask = "done" /\ exitGov = "done"
    /\ phase' = "closed"
    /\ exitCode' = 0
    /\ UNCHANGED <<initTask, initGov, mainTask, govPc, cycle_no, stop_event,
                   stop_counter, stopCalls, emergency, published, finTask,
                   exitGov, svcFin, modFin, nServices, nModules>>
    /\ UNCHANGED nonAppVars

AppNext ==
    \/ stop
    \/ initialize
    \/ init_time_governor
    \/ init_complete
    \/ run
    \/ main
    \/ run_time_governor_start
    \/ run_time_governor_tick
    \/ run_time_governor_break
    \/ run_complete
    \/ finalize
    \/ exit_time_governor_start
    \/ \E s \in 1..MaxServices : service_finalize(s)
    \/ exit_time_governor_services_done
    \/ \E m \in 1..MaxModules : module_finalize(m)
    \/ exit_time_governor_modules_done
    \/ run_return

\* every step of the program other than the arrival of a stop request
AppProgress ==
    \/ initialize
    \/ init_time_governor
    \/ init_complete
    \/ run
    \/ main
    \/ run_time_governor_start
    \/ run_time_governor_tick
    \/ run_time_governor_break
    \/ run_complete
    \/ finalize
    \/ exit_time_governor_start
    \/ \E s \in 1..MaxServices : service_finalize(s)
    \/ exit_time_governor_services_done
    \/ \E m \in 1..MaxModules : module_finalize(m)
    \/ exit_time_governor_modules_done
    \/ run_return

(***************************************************************************)
(* bspump/asab/alert.py                                                    *)
(***************************************************************************)
Providers == 1..NProviders
None == 0

\* a task of _main(): `st` is where the coroutine is, `alert` the alert it
\* took from the queue and is delivering, `cancelReq` that Task.cancel() was
\* called on it, `cb` the state of its done-callback _main_done
NewTask == [st |-> "waiting", alert |-> 0, cancelReq |-> FALSE, cb |-> "none"]

\* the task is not done: it waits in Queue.get() or delivers an alert
Live(t) == t.st \in {"waiting", "delivering"}

LiveWorkers(p) == {i \in 1..Len(tasks[p]) : Live(tasks[p][i])}

\* AlertService.__init__ and AlertAsyncProviderABC.__init__
AlertInit ==
    /\ alertPhase = "constructed"
    /\ provInit = [p \in Providers |-> FALSE]
    /\ provFin = [p \in Providers |-> FALSE]
    /\ Queue = [p \in Providers |-> <<>>]
    /\ MainTask = [p \in Providers |-> None]
    /\ tasks = [p \in Providers |-> <<>>]
    /\ taken = [p \in Providers |-> <<>>]
    /\ nextAlert = 1

\* AlertService.trigger: put_nowait into the queue of every provider
alert_trigger ==
    /\ nextAlert <= MaxAlerts
    /\ Queue' = [p \in Providers |-> Append(Queue[p], nextAlert)]
    /\ nextAlert' = nextAlert + 1
    /\ UNCHANGED <<alertPhase, provInit, provFin, MainTask, tasks, taken>>
    /\ UNCHANGED nonAlertVars

\* AlertService.initialize is started (gather of the providers' initialize)
alert_initialize ==
    /\ alertPhase = "constructed"
    /\ alertPhase' = "initializing"
    /\ UNCHANGED <<provInit, provFin, Queue, MainTask, tasks, taken, nextAlert>>
    /\ UNCHANGED nonAlertVars

\* the tasks of provider p after _start_main_task
start_main_task(p) == Append(tasks[p], NewTask)

\* AlertAsyncProviderABC.initialize -> _start_main_task
provider_initialize(p) ==
    /\ alertPhase = "initializing"
    /\ ~provInit[p]
    /\ MainTask[p] = None                       \* assert self.MainTask is None
    /\ Len(tasks[p]) < MaxWorkers
    /\ tasks' = [tasks EXCEPT ![p] = start_main_task(p)]
    /\ MainTask' = [MainTask EXCEPT ![p] = Len(tasks[p]) + 1]
    /\ provInit' = [provInit EXCEPT ![p] = TRUE]
    /\ UNCHANGED <<alertPhase, provFin, Queue, taken, nextAlert>>
    /\ UNCHANGED nonAlertVars

\* AlertService.initialize returns: every provider's initialize has run
alert_initialized ==
    /\ alertPhase = "initializing"
    /\ \A p \in Providers : provInit[p]
    /\ alertPhase' = "initialized"
    /\ UNCHANGED <<provInit, provFin, Queue, MainTask, tasks, taken, nextAlert>>
    /\ UNCHANGED nonAlertVars

\* _main: `a = await self.Queue.get()` returns the oldest alert
worker_get(p, i) ==
    /\ i \in 1..Len(tasks[p])
    /\ tasks[p][i].st = "waiting" /\ ~tasks[p][i].cancelReq
    /\ Queue[p] # <<>>
    /\ tasks' = [tasks EXCEPT ![p][i].st = "delivering",
                              ![p][i].alert = Head(Queue[p])]
    /\ Queue' = [Queue EXCEPT ![p] = Tail(@)]
    /\ taken' = [taken EXCEPT ![p] = Append(@, Head(Queue[p]))]
    /\ UNCHANGED <<alertPhase, provInit, provFin, MainTask, nextAlert>>
    /\ UNCHANGED nonAlertVars

\* _main: the delivery is over (whatever the HTTP status), next iteration
worker_delivered(p, i) ==
    /\ i \in 1..Len(tasks[p])
    /\ tasks[p][i].st = "delivering" /\ ~tasks[p][i].cancelReq
    /\ tasks' = [tasks EXCEPT ![p][i].st = "waiting", ![p][i].alert = 0]
    /\ UNCHANGED <<alertPhase, provInit, provFin, Queue, MainTask, taken,
                   nextAlert>>
    /\ UNCHANGED nonAlertVars

\* _main: the delivery raises (connection error, ...); the task is done with
\* an exception and its done-callback is scheduled
worker_raises(p, i) ==
    /\ i \in 1..Len(tasks[p])
    /\ tasks[p][i].st = "delivering" /\ ~tasks[p][i].cancelReq
    /\ tasks' = [tasks EXCEPT ![p][i].st = "raised", ![p][i].cb = "pending"]
    /\ UNCHANGED <<alertPhase, provInit, provFin, Queue, MainTask, taken,
                   nextAlert>>
    /\ UNCHANGED nonAlertVars

\* _main (abstract) returns normally; its done-callback is scheduled
worker_returns(p, i) ==
    /\ i \in 1..Len(tasks[p])
    /\ Live(tasks[p][i]) /\ ~tasks[p][i].cancelReq
    /\ tasks' = [tasks EXCEPT ![p][i].st = "returned", ![p][i].cb = "pending"]
    /\ UNCHANGED <<alertPhase, provInit, provFin, Queue, MainTask, taken,
                   nextAlert>>
    /\ UNCHANGED nonAlertVars

\* CancelledError is thrown into a task that Task.cancel() was called on
worker_cancelled(p, i) ==
    /\ i \in 1..Len(tasks[p])
    /\ Live(tasks[p][i]) /\ tasks[p][i].cancelReq
    /\ tasks' = [tasks EXCEPT ![p][i].st = "cancelled", ![p][i].cb = "pending"]
    /\ UNCHANGED <<alertPhase, provInit, provFin, Queue, MainTask, taken,
                   nextAlert>>
    /\ UNCHANGED nonAlertVars

\* `self.MainTask.result()` in _main_done: "ok", or the exception it raises
MainTaskResult(p) ==
    CASE tasks[p][MainTask[p]].st = "returned"  -> "ok"
      [] tasks[p][MainTask[p]].st = "raised"    -> "Exception"
      [] tasks[p][MainTask[p]].st = "cancelled" -> "CancelledError"
      [] OTHER                                  -> "InvalidStateError"

\* AlertAsyncProviderABC._main_done, the done-callback of task i
main_done(p, i) ==
    /\ i \in 1..Len(tasks[p])
    /\ tasks[p][i].cb = "pending"
    /\ IF MainTask[p] = None
       THEN \* return
            /\ tasks' = [tasks EXCEPT ![p][i].cb = "ran"]
            /\ MainTask' = MainTask
       ELSE IF MainTaskResult(p) # "ok"
       THEN \* result() raises out of the callback
            /\ tasks' = [tasks EXCEPT ![p][i].cb = "ran"]
            /\ MainTask' = MainTask
       ELSE \* self.MainTask = None; self._start_main_task()
            /\ Len(tasks[p]) < MaxWorkers
            /\ tasks' = [tasks EXCEPT
                            ![p] = [start_main_task(p) EXCEPT ![i].cb = "ran"]]
            /\ MainTask' = [MainTask EXCEPT ![p] = Len(tasks[p]) + 1]
    /\ UNCHANGED <<alertPhase, provInit, provFin, Queue, taken, nextAlert>>
    /\ UNCHANGED nonAlertVars

\* AlertService.finalize is started (gather of the providers' finalize)
alert_finalize ==
    /\ alertPhase = "initialized"
    /\ alertPhase' = "finalizing"
    /\ UNCHANGED <<provInit, provFin, Queue, MainTask, tasks, taken, nextAlert>>
    /\ UNCHANGED nonAlertVars

\* Task.cancel() on task i of provider p: no effect on a task that is done
Cancel(p, i) ==
    IF Live(tasks[p][i])
    THEN [tasks[p] EXCEPT ![i].cancelReq = TRUE]
    ELSE tasks[p]

\* finalize that, after the cancel, starts the worker again as _main_done does
provider_finalize_restarting(p) ==
    /\ alertPhase = "finalizing"
    /\ ~provFin[p]
    /\ Len(tasks[p]) < MaxWorkers
    /\ IF MainTask[p] # None
       THEN /\ tasks' = [tasks EXCEPT ![p] = Append(Cancel(p, MainTask[p]), NewTask)]
            /\ MainTask' = [MainTask EXCEPT ![p] = Len(tasks[p]) + 1]
       ELSE UNCHANGED <<tasks, MainTask>>
    /\ provFin' = [provFin EXCEPT ![p] = TRUE]
    /\ UNCHANGED <<alertPhase, provInit, Queue, taken, nextAlert>>
    /\ UNCHANGED nonAlertVars

\* AlertAsyncProviderABC.finalize
provider_finalize(p) ==
    /\ alertPhase = "finalizing"
    /\ ~provFin[p]
    /\ IF MainTask[p] # None
       THEN /\ tasks' = [tasks EXCEPT ![p] = Cancel(p, MainTask[p])]
            /\ MainTask' = [MainTask EXCEPT ![p] = None]
       ELSE UNCHANGED <<tasks, MainTask>>
    /\ provFin' = [provFin EXCEPT ![p] = TRUE]
    /\ UNCHANGED <<alertPhase, provInit, Queue, taken, nextAlert>>
    /\ UNCHANGED nonAlertVars

\* AlertService.finalize returns: every provider's finalize has run
alert_finalized ==
    /\ alertPhase = "finalizing"
    /\ \A p \in Providers : provFin[p]
    /\ alertPhase' = "finalized"
    /\ UNCHANGED <<provInit, provFin, Queue, MainTask, tasks, taken, nextAlert>>
    /\ UNCHANGED nonAlertVars

AlertNext ==
    \/ alert_trigger
    \/ alert_initialize
    \/ \E p \in Providers : provider_initialize(p)
    \/ alert_initialized
    \/ \E p \in Providers : \E i \in 1..MaxWorkers : worker_get(p, i)
    \/ \E p \in Providers : \E i \in 1..MaxWorkers : worker_delivered(p, i)
    \/ \E p \in Providers : \E i \in 1..MaxWorkers : worker_raises(p, i)
    \/ \E p \in Providers : \E i \in 1..MaxWorkers : worker_returns(p, i)
    \/ \E p \in Providers : \E i \in 1..MaxWorkers : worker_cancelled(p, i)
    \/ \E p \in Providers : \E i \in 1..MaxWorkers : main_done(p, i)
    \/ alert_finalize
    \/ \E p \in Providers : provider_finalize(p)
    \/ alert_finalized

(***************************************************************************)
(* bspump/ldap/source.py                                                   *)
(***************************************************************************)
\* the tokens of the downstream stages that may throttle the pipeline
Owners == {"sink"}

\* the entries of the k-th page, numbered in the order the server holds them
SumSizes(k) ==
    LET RECURSIVE S(_)
        S(j) == IF j = 0 THEN 0 ELSE ldapPages[j] + S(j - 1)
    IN S(k)

PageEntries(k) == [e \in 1..ldapPages[k] |-> SumSizes(k - 1) + e]

\* LDAPSource._search_worker(cookie): the next page and the cookie returned
\* with it, empty (0) with the last page
search_worker(c) ==
    <<PageEntries(c + 1), IF c + 1 < Len(ldapPages) THEN c + 1 ELSE 0>>

\* Pipeline.ready: the pipeline is ready iff nobody throttles it
PipelineReady == ThrottleOwners = {}

LdapInit ==
    /\ ldapPages \in UNION {[1..n -> 0..MaxPageSize] : n \in 1..MaxPages}
    /\ srcPc = "idle"
    /\ cookie = 0
    /\ page = <<>>
    /\ entryIdx = 0
    /\ cycles = 0
    /\ ThrottleOwners = {}
    /\ delivered = <<>>
    /\ readyAwaited = FALSE
    /\ readySince = TRUE

\* Pipeline.throttle(owner, enable), called by a downstream stage
throttle(owner, enable) ==
    /\ ThrottleOwners' = IF enable THEN ThrottleOwners \cup {owner}
                                   ELSE ThrottleOwners \ {owner}
    /\ ThrottleOwners' # ThrottleOwners
    /\ readySince' = (readySince \/ ThrottleOwners' = {})
    /\ UNCHANGED <<ldapPages, srcPc, cookie, page, entryIdx, cycles, delivered,
                   readyAwaited>>
    /\ UNCHANGED nonLdapVars

\* the trigger of the source fires: cycle() is called
cycle_start ==
    /\ srcPc = "idle"
    /\ cycles < MaxCycles
    /\ cycles' = cycles + 1
    /\ srcPc' = "ready"
    /\ UNCHANGED <<ldapPages, cookie, page, entryIdx, ThrottleOwners,
                   delivered, readyAwaited, readySince>>
    /\ UNCHANGED nonLdapVars

\* cycle: `await self.Pipeline.ready()` resolves; cookie = b""
cycle_ready ==
    /\ srcPc = "ready"
    /\ PipelineReady
    /\ readyAwaited' = TRUE
    /\ cookie' = 0
    /\ srcPc' = "search"
    /\ UNCHANGED <<ldapPages, page, entryIdx, cycles, ThrottleOwners,
                   delivered, readySince>>
    /\ UNCHANGED nonLdapVars

\* where the cycle continues when the for loop over the page `pg` is at
\* position i: the next entry, the next page or the end of the cycle
AfterEntry(pg, i, ck) ==
    IF i <= Len(pg) THEN "process"
    ELSE IF ck = 0 THEN "idle" ELSE "search"

\* cycle: `page, cookie = await self.ProactorService.execute(...)`
cycle_search ==
    /\ srcPc = "search"
    /\ page' = search_worker(cookie)[1]
    /\ cookie' = search_worker(cookie)[2]
    /\ entryIdx' = 1
    /\ srcPc' = AfterEntry(page', 1, cookie')
    /\ UNCHANGED <<ldapPages, cycles, ThrottleOwners, delivered, readyAwaited,
                   readySince>>
    /\ UNCHANGED nonLdapVars

\* Source.process(event): the event is handed to Pipeline.process, which
\* runs it through the processors; a downstream stage that cannot take more
\* input throttles the pipeline while it processes the event
process(event) ==
    /\ delivered' = Append(delivered, event)
    /\ \E owners \in SUBSET Owners : ThrottleOwners' = ThrottleOwners \cup owners
    /\ readyAwaited' = FALSE
    /\ readySince' = (ThrottleOwners' = {})

\* cycle: `await self.process(entry, context={})` for the next entry
cycle_process ==
    /\ srcPc = "process"
    /\ process(page[entryIdx])
    /\ entryIdx' = entryIdx + 1
    /\ srcPc' = AfterEntry(page, entryIdx + 1, cookie)
    /\ UNCHANGED <<ldapPages, cookie, page, cycles>>
    /\ UNCHANGED nonLdapVars

LdapNext ==
    \/ \E o \in Owners : \E en \in BOOLEAN : throttle(o, en)
    \/ cycle_start
    \/ cycle_ready
    \/ cycle_search
    \/ cycle_process

(***************************************************************************)
(* asab/metrics/metrics.py: Metric.locate_field and DutyCycle              *)
(*                                                                         *)
(* A dict is a sequence of [name, ...] entries in insertion order.  The    *)
(* records of self.Init are shared by reference with every field whose     *)
(* actuals were made by self.Init.copy() (a shallow copy): such an entry   *)
(* is marked `shared` and stands for the record of that name in dcInit.    *)
(***************************************************************************)
Names == {"n1", "n2"}

\* tag dicts: functions from tag keys to strings
NoTags == [k \in {} |-> ""]
TagsA == [host |-> "a"]
\* the `tags` arguments of a write; "None" for tags=None
TagArgs == {"None", "A"}
TagDict(arg) == IF arg = "A" THEN TagsA ELSE NoTags

\* Metric.__init__: self.StaticTags = dict()
StaticTags == NoTags

\* DutyCycle.__init__: self.EmptyValue, with the time of construction
EmptyValue(now) ==
    [on_off |-> FALSE, timestamp |-> now, off_cycle |-> 0, on_cycle |-> 0]

NoRec == EmptyValue(0)
NoValue == [set |-> FALSE, on |-> 0, full |-> 0]

Has(dict, name) == \E i \in 1..Len(dict) : dict[i].name = name
IdxOf(dict, name) == CHOOSE i \in 1..Len(dict) : dict[i].name = name

\* the record an entry of a field's actuals refers to
Deref(e, init) == IF e.shared THEN init[IdxOf(init, e.name)].rec ELSE e.rec

\* self.Init.copy(): a new dict whose entries refer to the records of Init
InitCopy(init) ==
    [i \in 1..Len(init) |-> [name |-> init[i].name, shared |-> TRUE, rec |-> NoRec]]

\* DutyCycle.add_field(tags): the new field
add_field(tags, init, now) ==
    [tags |-> tags,
     actuals |-> InitCopy(init),
     values |-> [n \in Names |-> NoValue],
     expires_at |-> now + Expiration]

\* DutyCycle.__init__ with its init_values
InitOf(init_values) ==
    [i \in 1..Len(init_values) |->
        [name |-> init_values[i].name,
         rec |-> [EmptyValue(0) EXCEPT !.on_off = init_values[i].on_off]]]

\* the init_values the metric is constructed with: None (or empty), one name
\* or two names
InitValues ==
    {<<>>}
    \cup {<<[name |-> "n1", on_off |-> b]>> : b \in BOOLEAN}
    \cup {<<[name |-> "n1", on_off |-> b], [name |-> "n2", on_off |-> c]>> :
            b \in BOOLEAN, c \in BOOLEAN}

\* DutyCycle.__init__ and Metric._initialize_storage: self.Init is a dict,
\* never None, so the field of the static tags is always added
DcInit ==
    /\ clock = 0
    /\ \E iv \in InitValues : dcInit = InitOf(iv)
    /\ dcFieldset = <<add_field(StaticTags, dcInit, 0)>>
    /\ dcError = "none"
    /\ dcCalls = 0
    /\ dcLast = [op |-> "init", now |-> 0]

\* time passes
dc_tick ==
    /\ clock < MaxClock
    /\ clock' = clock + 1
    /\ dcLast' = [op |-> "tick", now |-> clock + 1]
    /\ dcError' = "none"
    /\ UNCHANGED <<dcInit, dcFieldset, dcCalls>>
    /\ UNCHANGED nonDcVars

\* Metric.locate_field(tags): the tags the field is sought by
LocateKey(arg) ==
    IF arg = "None" THEN StaticTags ELSE StaticTags @@ TagDict(arg)

\* Metric.locate_field(tags): index of the field in the fieldset, or
\* Len(fieldset) + 1 when add_field has to append a new one
locate_field(fieldset, arg) ==
    IF arg = "None" /\ Len(fieldset) = 1 THEN 1
    ELSE IF \E i \in 1..Len(fieldset) : fieldset[i].tags = LocateKey(arg)
         THEN CHOOSE i \in 1..Len(fieldset) :
                /\ fieldset[i].tags = LocateKey(arg)
                /\ \A j \in 1..(i - 1) : fieldset[j].tags # LocateKey(arg)
         ELSE Len(fieldset) + 1

\* the fieldset after locate_field
Located(fieldset, arg, init, now) ==
    IF locate_field(fieldset, arg) > Len(fieldset)
    THEN Append(fieldset, add_field(LocateKey(arg), init, now))
    ELSE fieldset

\* DutyCycle.set crediting the elapsed time to the accumulator of the new
\* state
Switched_crediting_new_state(rec, on_off, now) ==
    [on_off |-> on_off,
     timestamp |-> now,
     off_cycle |-> IF on_off THEN rec.off_cycle
                             ELSE rec.off_cycle + (now - rec.timestamp),
     on_cycle |-> IF on_off THEN rec.on_cycle + (now - rec.timestamp)
                            ELSE rec.on_cycle]

\* DutyCycle.set, the accumulators after a switch to on_off at `now`
Switched(rec, on_off, now) ==
    [on_off |-> on_off,
     timestamp |-> now,
     off_cycle |-> IF on_off THEN rec.off_cycle + (now - rec.timestamp)
                             ELSE rec.off_cycle,
     on_cycle |-> IF on_off THEN rec.on_cycle
                            ELSE rec.on_cycle + (now - rec.timestamp)]

\* DutyCycle.set(name, on_off, tags)
dc_set(name, on_off, arg) ==
    LET fs == Located(dcFieldset, arg, dcInit, clock)
        f == locate_field(dcFieldset, arg)
        act == fs[f].actuals
    IN /\ dcCalls < MaxCalls
       /\ dcCalls' = dcCalls + 1
       /\ dcLast' = [op |-> "set", now |-> clock, field |-> f,
                     name |-> name, on_off |-> on_off]
       /\ dcError' = "none"
       /\ IF ~Has(act, name)
          THEN \* first set of the name in this field
               /\ dcFieldset' = [fs EXCEPT ![f].actuals = Append(act,
                     [name |-> name, shared |-> FALSE,
                      rec |-> [EmptyValue(clock) EXCEPT !.on_off = on_off]])]
               /\ dcInit' = dcInit
          ELSE LET k == IdxOf(act, name)
                   rec == Deref(act[k], dcInit)
               IN IF rec.on_off = on_off
                  THEN \* no change
                       dcFieldset' = fs /\ dcInit' = dcInit
                  ELSE IF act[k].shared
                  THEN \* the record is the one of self.Init
                       /\ dcInit' = [dcInit EXCEPT ![IdxOf(dcInit, name)].rec =
                                        Switched(rec, on_off, clock)]
                       /\ dcFieldset' = [fs EXCEPT
                                           ![f].expires_at = clock + Expiration]
                  ELSE /\ dcInit' = dcInit
                       /\ dcFieldset' = [fs EXCEPT
                              ![f].actuals[k].rec = Switched(rec, on_off, clock),
                              ![f].expires_at = clock + Expiration]
       /\ UNCHANGED clock
       /\ UNCHANGED nonDcVars

\* DutyCycle.flush: the local variables of the method, which keep their
\* values from one field of the outer loop to the next
NoLocals == [bound |-> FALSE, v_name |-> "n1", on_off |-> FALSE,
             on_cycle |-> 0, off_cycle |-> 0]

\* the locals after the inner loop `for v_name, values in actuals.items()`
\* of one field: those of the last name the field tracks
AfterNames(field, locals, init, now) ==
    IF Len(field.actuals) = 0 THEN locals
    ELSE LET e == field.actuals[Len(field.actuals)]
             rec == Deref(e, init)
             d == now - rec.timestamp
         IN [bound |-> TRUE, v_name |-> e.name, on_off |-> rec.on_off,
             on_cycle |-> IF rec.on_off THEN rec.on_cycle + d ELSE rec.on_cycle,
             off_cycle |-> IF rec.on_off THEN rec.off_cycle ELSE rec.off_cycle + d]

\* a flush that stores the inverse of the ratio
Rolled_inverting_ratio(field, locals, now) ==
    LET full_cycle == locals.on_cycle + locals.off_cycle
        new_value == [EmptyValue(now) EXCEPT !.on_off = locals.on_off]
        entry == [name |-> locals.v_name, shared |-> FALSE, rec |-> new_value]
    IN [field EXCEPT
          !.values = IF full_cycle > 0
                     THEN [@ EXCEPT ![locals.v_name] =
                             [set |-> TRUE, on |-> full_cycle, full |-> locals.on_cycle]]
                     ELSE @,
          !.actuals = IF Has(@, locals.v_name)
                      THEN [@ EXCEPT ![IdxOf(@, locals.v_name)] = entry]
                      ELSE Append(@, entry)]

\* the field after the statements that follow the inner loop
Rolled(field, locals, now) ==
    LET full_cycle == locals.on_cycle + locals.off_cycle
        new_value == [EmptyValue(now) EXCEPT !.on_off = locals.on_off]
        entry == [name |-> locals.v_name, shared |-> FALSE, rec |-> new_value]
    IN [field EXCEPT
          !.values = IF full_cycle > 0
                     THEN [@ EXCEPT ![locals.v_name] =
                             [set |-> TRUE, on |-> locals.on_cycle, full |-> full_cycle]]
                     ELSE @,
          !.actuals = IF Has(@, locals.v_name)
                      THEN [@ EXCEPT ![IdxOf(@, locals.v_name)] = entry]
                      ELSE Append(@, entry)]

\* the outer loop of DutyCycle.flush over fields i..Len(fieldset); the
\* result is the fieldset and the exception raised, if any
RECURSIVE FlushFields(_, _, _, _, _)
FlushFields(fieldset, i, locals, init, now) ==
    IF i > Len(fieldset) THEN [fieldset |-> fieldset, error |-> "none"]
    ELSE LET l2 == AfterNames(fieldset[i], locals, init, now)
         IN IF ~l2.bound
            THEN \* `on_cycle` is read before any assignment
                 [fieldset |-> fieldset, error |-> "UnboundLocalError"]
            ELSE FlushFields([fieldset EXCEPT ![i] = Rolled(@, l2, now)],
                             i + 1, l2, init, now)

\* the fields flush keeps: `field["expires_at"] >= self.App.time()`
Unexpired(fieldset, app_time) ==
    SelectSeq(fieldset, LAMBDA field : field.expires_at >= app_time)

\* DutyCycle.flush(now); App.time() is read `lag` seconds after `now`
dc_flush(lag) ==
    /\ clock + lag <= MaxClock
    /\ dcCalls < MaxCalls
    /\ dcCalls' = dcCalls + 1
    /\ LET res == FlushFields(Unexpired(dcFieldset, clock + lag), 1, NoLocals,
                              dcInit, clock)
       IN /\ dcFieldset' = res.fieldset
          /\ dcError' = res.error
    /\ dcLast' = [op |-> "flush", now |-> clock]
    /\ clock' = clock + lag
    /\ UNCHANGED dcInit
    /\ UNCHANGED nonDcVars

DcNext ==
    \/ dc_tick
    \/ \E n \in Names : \E b \in BOOLEAN : \E arg \in TagArgs : dc_set(n, b, arg)
    \/ \E lag \in 0..MaxFlushLag : dc_flush(lag)

(***************************************************************************)
(* asab/metrics/metrics.py: Gauge, Counter, EPSCounter, AggregationCounter *)
(*                                                                         *)
(* A dict of numbers is a function from its keys.  A stored value is the   *)
(* exact quotient n/d: Gauge and Counter store d = 1, EPSCounter stores    *)
(* the actual divided by the elapsed time.                                 *)
(***************************************************************************)
Kinds == {"Gauge", "Counter", "EPSCounter", "AggregationCounter"}
CounterKinds == {"Counter", "EPSCounter", "AggregationCounter"}
CtNames == {"c1", "c2"}
CtValues == {1, 2}

EmptyDict == [k \in {} |-> 0]
Put(dict, k, v) == [x \in (DOMAIN dict) \cup {k} |-> IF x = k THEN v ELSE dict[x]]
Val(n) == [n |-> n, d |-> 1]
Vals(dict) == [k \in DOMAIN dict |-> Val(dict[k])]

\* the `tags` arguments of a write; "None" for tags=None
CtTagArgs == {"None", "A"}
CtTagDict(arg) == IF arg = "A" THEN [host |-> "a"] ELSE NoTags
\* the static tags the metric is registered with
StaticTagSets == {NoTags, [host |-> "s"]}

\* the init_values the metric is constructed with
CtInits == {[none |-> TRUE, dict |-> EmptyDict],
            [none |-> FALSE, dict |-> [c1 |-> 1]]}

\* `self.Init.copy() if self.Init is not None else dict()`
InitDict(init) == IF init.none THEN EmptyDict ELSE init.dict

\* Gauge.add_field, Counter.add_field: the new field; a Gauge field has no
\* actuals
ct_add_field(kind, tags, init, now) ==
    [tags |-> tags,
     values |-> Vals(InitDict(init)),
     actuals |-> IF kind = "Gauge" THEN EmptyDict ELSE InitDict(init),
     added |-> EmptyDict,   \* history: additions less subtractions per name
                            \* since the field was created or last reset
     expires_at |-> now + Expiration]

\* Metric.__init__, EPSCounter.__init__, Metric._initialize_storage
CtInit ==
    /\ ctKind \in Kinds
    /\ ctReset \in BOOLEAN
    /\ ctKind = "Gauge" => ~ctReset
    /\ ctInit \in CtInits
    /\ ctStatic \in StaticTagSets
    /\ ctTime = 0
    /\ ctLastTime = 0
    /\ ctFieldset = IF ctInit.none THEN <<>>
                    ELSE <<ct_add_field(ctKind, ctStatic, ctInit, 0)>>
    /\ ctWrites = 0
    /\ ctFlushes = 0
    /\ ctLast = [op |-> "init", now |-> 0]

\* time passes
ct_tick ==
    /\ ctTime < MaxClock
    /\ ctTime' = ctTime + 1
    /\ ctLast' = [op |-> "tick", now |-> ctTime + 1]
    /\ UNCHANGED <<ctKind, ctReset, ctInit, ctStatic, ctFieldset, ctLastTime,
                   ctWrites, ctFlushes>>
    /\ UNCHANGED nonCtVars

\* locate_field with the given tags laid over the static ones
TagsKey_tags_win(arg, static) ==
    IF arg = "None" THEN static ELSE CtTagDict(arg) @@ static

\* Metric.locate_field(tags): the tags the field is sought by, the static
\* tags laid over the given ones
TagsKey(arg, static) ==
    IF arg = "None" THEN static ELSE static @@ CtTagDict(arg)

\* locate_field without the scan of the fieldset for tags=None
FieldIndex_unscanned(fieldset, arg, static) ==
    IF arg = "None" /\ Len(fieldset) = 1 THEN 1
    ELSE IF arg # "None"
            /\ \E i \in 1..Len(fieldset) : fieldset[i].tags = TagsKey(arg, static)
         THEN CHOOSE i \in 1..Len(fieldset) :
                /\ fieldset[i].tags = TagsKey(arg, static)
                /\ \A j \in 1..(i - 1) : fieldset[j].tags # TagsKey(arg, static)
         ELSE Len(fieldset) + 1

\* Metric.locate_field(tags): index of the field in the fieldset, or
\* Len(fieldset) + 1 when add_field has to append a new one
FieldIndex(fieldset, arg, static) ==
    IF arg = "None" /\ Len(fieldset) = 1 THEN 1
    ELSE IF \E i \in 1..Len(fieldset) : fieldset[i].tags = TagsKey(arg, static)
         THEN CHOOSE i \in 1..Len(fieldset) :
                /\ fieldset[i].tags = TagsKey(arg, static)
                /\ \A j \in 1..(i - 1) : fieldset[j].tags # TagsKey(arg, static)
         ELSE Len(fieldset) + 1

\* the fieldset after locate_field
WithField(fieldset, arg) ==
    IF FieldIndex(fieldset, arg, ctStatic) > Len(fieldset)
    THEN Append(fieldset,
                ct_add_field(ctKind, TagsKey(arg, ctStatic), ctInit, ctTime))
    ELSE fieldset

\* the bookkeeping common to the write methods
Write(op, arg) ==
    /\ ctWrites < MaxCtWrites
    /\ ctWrites' = ctWrites + 1
    /\ ctLast' = [op |-> op, now |-> ctTime, arg |-> arg,
                  field |-> FieldIndex(ctFieldset, arg, ctStatic)]
    /\ UNCHANGED <<ctKind, ctReset, ctInit, ctStatic, ctLastTime, ctTime,
                   ctFlushes>>
    /\ UNCHANGED nonCtVars

\* Gauge.set(name, value, tags)
gauge_set(name, value, arg) ==
    /\ ctKind = "Gauge"
    /\ LET f == FieldIndex(ctFieldset, arg, ctStatic)
       IN ctFieldset' = [WithField(ctFieldset, arg) EXCEPT
                           ![f].values = Put(@, name, Val(value)),
                           ![f].expires_at = ctTime + Expiration]
    /\ Write("set", arg)

\* Counter.add(name, value, tags)
counter_add(name, value, arg) ==
    /\ ctKind \in {"Counter", "EPSCounter"}
    /\ LET f == FieldIndex(ctFieldset, arg, ctStatic)
       IN ctFieldset' = [WithField(ctFieldset, arg) EXCEPT
             ![f].actuals = Put(@, name,
                  IF name \in DOMAIN @ THEN @[name] + value ELSE value),
             ![f].added = Put(@, name,
                  IF name \in DOMAIN @ THEN @[name] + value ELSE value),
             ![f].expires_at = ctTime + Expiration]
    /\ Write("add", arg)

\* Counter.sub with `+=` in the place of `-=`
counter_sub_adding(name, value, arg) ==
    /\ ctKind \in {"Counter", "EPSCounter"}
    /\ LET f == FieldIndex(ctFieldset, arg, ctStatic)
       IN ctFieldset' = [WithField(ctFieldset, arg) EXCEPT
             ![f].actuals = Put(@, name,
                  IF name \in DOMAIN @ THEN @[name] + value ELSE 0 - value),
             ![f].added = Put(@, name,
                  IF name \in DOMAIN @ THEN @[name] - value ELSE 0 - value),
             ![f].expires_at = ctTime + Expiration]
    /\ Write("sub", arg)

\* Counter.sub(name, value, tags)
counter_sub(name, value, arg) ==
    /\ ctKind \in {"Counter", "EPSCounter"}
    /\ LET f == FieldIndex(ctFieldset, arg, ctStatic)
       IN ctFieldset' = [WithField(ctFieldset, arg) EXCEPT
             ![f].actuals = Put(@, name,
                  IF name \in DOMAIN @ THEN @[name] - value ELSE 0 - value),
             ![f].added = Put(@, name,
                  IF name \in DOMAIN @ THEN @[name] - value ELSE 0 - value),
             ![f].expires_at = ctTime + Expiration]
    /\ Write("sub", arg)

\* AggregationCounter.__init__: aggregator=max
Aggregator(a, b) == IF a >= b THEN a ELSE b

\* AggregationCounter.set(name, value, tags)
aggregation_set(name, value, arg) ==
    /\ ctKind = "AggregationCounter"
    /\ LET f == FieldIndex(ctFieldset, arg, ctStatic)
       IN ctFieldset' = [WithField(ctFieldset, arg) EXCEPT
             ![f].actuals = Put(@, name,
                  IF name \in DOMAIN @ THEN Aggregator(value, @[name]) ELSE value),
             ![f].expires_at = ctTime + Expiration]
    /\ Write("set", arg)

\* the fields flush keeps: `field["expires_at"] >= self.App.time()`
Kept(fieldset, app_time) ==
    SelectSeq(fieldset, LAMBDA field : field.expires_at >= app_time)

\* Counter.flush: one field after the loop body
CounterFlushed(field) ==
    IF ctReset
    THEN [field EXCEPT !.values = Vals(field.actuals),
                       !.actuals = InitDict(ctInit),
                       !.added = EmptyDict]
    ELSE [field EXCEPT !.values = Vals(field.actuals)]

\* EPSCounter.flush: one field after the loop body
EPSFlushed(field, delta) ==
    LET rates == [k \in DOMAIN field.actuals |->
                      [n |-> field.actuals[k], d |-> delta]]
    IN IF ctReset
       THEN [field EXCEPT !.values = rates,
                          !.actuals = InitDict(ctInit),
                          !.added = EmptyDict]
       ELSE [field EXCEPT !.values = rates]

\* Gauge.flush, Counter.flush, EPSCounter.flush: the fieldset after
\* flush(now) when App.time() reads app_time
FlushedFieldset(now, app_time) ==
    LET kept == Kept(ctFieldset, app_time)
    IN IF ctKind = "Gauge" THEN kept
       ELSE IF ctKind = "EPSCounter"
       THEN IF now - ctLastTime <= 0 THEN kept
            ELSE [i \in 1..Len(kept) |-> EPSFlushed(kept[i], now - ctLastTime)]
       ELSE [i \in 1..Len(kept) |-> CounterFlushed(kept[i])]

\* flush(now); App.time() is read `lag` seconds after `now`
ct_flush(lag) ==
    /\ ctTime + lag <= MaxClock
    /\ ctFlushes < MaxCtFlushes
    /\ ctFlushes' = ctFlushes + 1
    /\ ctFieldset' = FlushedFieldset(ctTime, ctTime + lag)
    /\ ctLastTime' = IF /\ ctKind = "EPSCounter"
                        /\ ctTime - ctLastTime > 0
                        /\ ctReset
                        /\ Len(Kept(ctFieldset, ctTime + lag)) > 0
                     THEN ctTime ELSE ctLastTime
    /\ ctLast' = [op |-> "flush", now |-> ctTime]
    /\ ctTime' = ctTime + lag
    /\ UNCHANGED <<ctKind, ctReset, ctInit, ctStatic, ctWrites>>
    /\ UNCHANGED nonCtVars

\* the operations of a Gauge
GaugeNext ==
    \/ ct_tick
    \/ \E n \in CtNames : \E v \in CtValues : \E arg \in CtTagArgs :
          gauge_set(n, v, arg)
    \/ \E lag \in 0..MaxFlushLag : ct_flush(lag)

\* the `tags` arguments of the writes to a counter: the tag sets are
\* exercised with the Gauge
CounterTagArgs == {"None"}

\* the operations of a Counter and of an AggregationCounter
CounterNext ==
    \/ ct_tick
    \/ \E n \in CtNames : \E v \in CtValues : \E arg \in CounterTagArgs :
          \/ counter_add(n, v, arg)
          \/ counter_sub(n, v, arg)
          \/ aggregation_set(n, v, arg)
    \/ \E lag \in 0..MaxFlushLag : ct_flush(lag)

\* the operations of an EPSCounter
EPSNext ==
    \/ ct_tick
    \/ \E n \in CtNames : \E v \in CtValues : \E arg \in CounterTagArgs :
          \/ counter_add(n, v, arg)
          \/ counter_sub(n, v, arg)
    \/ \E lag \in 0..MaxFlushLag : ct_flush(lag)

(***************************************************************************)
(* asab/metrics/metrics.py: Histogram                                      *)
(*                                                                         *)
(* Bounds and values are counted in halves, so that 0.5 is 1 and the       *)
(* buckets [1, 5, 10] are <<2, 10, 20>>; float("inf") is Inf.              *)
(***************************************************************************)
Inf == 1000
\* the bounds bucket lists are made of
BoundValues == {2, 10, 20, Inf}
\* the bucket lists a Histogram is constructed with
BucketLists ==
    UNION {[1..n -> BoundValues] : n \in 0..MaxBuckets}
\* the values recorded: 0.5, 1, 2, 7 and 12
HValues == {1, 2, 4, 14, 24}
HNames == {"v1", "v2"}

\* `_buckets != sorted(buckets)`: the list is in sorted order
IsSorted(list) == \A i \in 1..(Len(list) - 1) : list[i] <= list[i + 1]

\* Histogram.__init__: the list _buckets after the implicit +inf
WithInf(list) ==
    IF Len(list) > 0 /\ list[Len(list)] # Inf THEN Append(list, Inf) ELSE list

\* Histogram.__init__: the exception raised, "none" if none
InitError(list) ==
    IF ~IsSorted(list) THEN "ValueError"
    ELSE IF Len(WithInf(list)) < 2 THEN "ValueError"
    ELSE "none"

\* Histogram.__init__: the keys of {b: dict() for b in _buckets}
BucketKeys(list) == {list[i] : i \in 1..Len(list)}

\* Histogram.__init__: self.Init for the keys of InitBuckets
HInitOf(keys) ==
    [buckets |-> [b \in keys |-> EmptyDict], sum |-> 0, count |-> 0]

\* no value recorded
NoneRecorded == [r \in HNames \X HValues |-> 0]

\* Histogram.add_field
h_add_field(tags, keys, now) ==
    [tags |-> tags,
     values |-> HInitOf(keys),
     actuals |-> HInitOf(keys),
     recorded |-> NoneRecorded,  \* history: how often each value was
                                 \* recorded under each name since the field
                                 \* was created or last reset
     expires_at |-> now + Expiration]

\* before Histogram(buckets)
HNew ==
    /\ hPc = "new"
    /\ hArg \in BucketLists
    /\ hBuckets = <<>>
    /\ hKeys = {}
    /\ hReset \in BOOLEAN
    /\ hFieldset = <<>>
    /\ hTime = 0
    /\ hWrites = 0
    /\ hFlushes = 0
    /\ hLast = [op |-> "init"]

\* Histogram.__init__ and Metric._initialize_storage
hist_construct ==
    /\ hPc = "new"
    /\ IF InitError(hArg) # "none"
       THEN /\ hPc' = "ValueError"
            /\ UNCHANGED <<hBuckets, hKeys, hFieldset>>
       ELSE /\ hPc' = "constructed"
            /\ hBuckets' = WithInf(hArg)
            /\ hKeys' = BucketKeys(WithInf(hArg))
            /\ hFieldset' = <<h_add_field(StaticTags, BucketKeys(WithInf(hArg)), hTime)>>
    /\ hLast' = [op |-> "construct"]
    /\ UNCHANGED <<hArg, hReset, hTime, hWrites, hFlushes>>
    /\ UNCHANGED nonHVars

\* a Histogram constructed with the buckets [1, 5, 10]
HInit ==
    /\ hPc = "constructed"
    /\ hArg = <<2, 10, 20>>
    /\ hBuckets = WithInf(hArg)
    /\ hKeys = BucketKeys(hBuckets)
    /\ hReset \in BOOLEAN
    /\ hFieldset = <<h_add_field(StaticTags, hKeys, 0)>>
    /\ hTime = 0
    /\ hWrites = 0
    /\ hFlushes = 0
    /\ hLast = [op |-> "construct"]

\* time passes
hist_tick ==
    /\ hPc = "constructed"
    /\ hTime < MaxClock
    /\ hTime' = hTime + 1
    /\ hLast' = [op |-> "tick"]
    /\ UNCHANGED <<hPc, hArg, hBuckets, hKeys, hReset, hFieldset, hWrites, hFlushes>>
    /\ UNCHANGED nonHVars

\* Histogram.set, counting in the first bucket that holds the value only
Counted_first_bucket(buckets, value_name, value) ==
    [b \in DOMAIN buckets |->
        IF value <= b /\ \A c \in DOMAIN buckets : value <= c => b <= c
        THEN Put(buckets[b], value_name,
                 IF value_name \in DOMAIN buckets[b]
                 THEN buckets[b][value_name] + 1 ELSE 1)
        ELSE buckets[b]]

\* Histogram.set: the buckets after the loop over the upper bounds
Counted(buckets, value_name, value) ==
    [b \in DOMAIN buckets |->
        IF value <= b
        THEN Put(buckets[b], value_name,
                 IF value_name \in DOMAIN buckets[b]
                 THEN buckets[b][value_name] + 1 ELSE 1)
        ELSE buckets[b]]

\* Histogram.set with `<` in the place of `<=`
Recorded_below(actuals, value_name, value) ==
    [buckets |-> [b \in DOMAIN actuals.buckets |->
                    IF value < b
                    THEN Put(actuals.buckets[b], value_name,
                             IF value_name \in DOMAIN actuals.buckets[b]
                             THEN actuals.buckets[b][value_name] + 1 ELSE 1)
                    ELSE actuals.buckets[b]],
     sum |-> actuals.sum + value,
     count |-> actuals.count + 1]

\* Histogram.set: the actuals of the field after the call
Recorded(actuals, value_name, value) ==
    [buckets |-> Counted(actuals.buckets, value_name, value),
     sum |-> actuals.sum + value,
     count |-> actuals.count + 1]

\* Histogram.set(value_name, value, tags=None)
hist_set(value_name, value) ==
    /\ hPc = "constructed"
    /\ hWrites < MaxHistWrites
    /\ hWrites' = hWrites + 1
    /\ LET f == FieldIndex(hFieldset, "None", StaticTags)
           fs == IF f > Len(hFieldset)
                 THEN Append(hFieldset, h_add_field(StaticTags, hKeys, hTime))
                 ELSE hFieldset
       IN /\ hFieldset' = [fs EXCEPT
                ![f].actuals = Recorded(@, value_name, value),
                ![f].recorded[<<value_name, value>>] = @ + 1,
                ![f].expires_at = hTime + Expiration]
          /\ hLast' = [op |-> "set", field |-> f]
    /\ UNCHANGED <<hPc, hArg, hBuckets, hKeys, hReset, hTime, hFlushes>>
    /\ UNCHANGED nonHVars

\* Histogram.flush: one field after the loop body
HistFlushed(field) ==
    IF hReset
    THEN [field EXCEPT !.values = field.actuals,
                       !.actuals = HInitOf(hKeys),
                       !.recorded = NoneRecorded]
    ELSE [field EXCEPT !.values = field.actuals]

\* Histogram.flush(now); App.time() is read `lag` seconds after `now`
hist_flush(lag) ==
    /\ hPc = "constructed"
    /\ hTime + lag <= MaxClock
    /\ hFlushes < MaxHistFlushes
    /\ hFlushes' = hFlushes + 1
    /\ LET kept == Kept(hFieldset, hTime + lag)
       IN hFieldset' = [i \in 1..Len(kept) |-> HistFlushed(kept[i])]
    /\ hLast' = [op |-> "flush"]
    /\ hTime' = hTime + lag
    /\ UNCHANGED <<hPc, hArg, hBuckets, hKeys, hReset, hWrites>>
    /\ UNCHANGED nonHVars

\* the operations of a constructed Histogram
HistNext ==
    \/ hist_tick
    \/ \E n \in HNames : \E v \in HValues : hist_set(n, v)
    \/ \E lag \in 0..MaxFlushLag : hist_flush(lag)

(***************************************************************************)
(* bspump/declarative/expression/logical: AND and EQUALS                   *)
(*                                                                         *)
(* An item is an Expression that evaluates to one value on (context,       *)
(* event).  Values are integers; True and False are 1 and 0, as they are   *)
(* for Python's `==` and for truthiness (bool is a subclass of int).       *)
(***************************************************************************)
\* the values the items evaluate to
ExValues == {0, 1, 5, 7}

\* the lists self.Items can hold
RECURSIVE ListsUpTo(_)
ListsUpTo(n) ==
    IF n = 0 THEN {<< >>}
    ELSE LET shorter == ListsUpTo(n - 1)
         IN shorter \cup {Append(l, v) : l \in {x \in shorter : Len(x) = n - 1},
                                         v \in ExValues}

ItemLists == ListsUpTo(MaxItems)

\* the accumulator of functools.reduce: an item not evaluated yet (an
\* Expression object) or a value
ItemObject(i) == [kind |-> "expression", i |-> i, v |-> 0]
Value(v) == [kind |-> "value", i |-> 0, v |-> v]
Raised(exception) == [kind |-> exception, i |-> 0, v |-> 0]
NotCalled == [kind |-> "none", i |-> 0, v |-> 0]

\* Python's `a == b` as a bool
PyEq(a, b) == IF a = b THEN 1 ELSE 0

\* bool(v) of a value
TruthyValue(v) == v # 0

\* the lambda of AND.__call__ applied to the accumulator x and the item y:
\* `x(...) and y(...) if isinstance(x, Expression) else x and y(...)`
AndLambda(items, st, y) ==
    LET x == st.acc
    IN IF x.kind = "expression"
       THEN IF TruthyValue(items[x.i])
            THEN [acc |-> Value(items[y]), evaluated |-> st.evaluated \o <<x.i, y>>]
            ELSE [acc |-> Value(items[x.i]), evaluated |-> Append(st.evaluated, x.i)]
       ELSE IF TruthyValue(x.v)
            THEN [acc |-> Value(items[y]), evaluated |-> Append(st.evaluated, y)]
            ELSE st

\* the lambda of EQUALS.__call__:
\* `x(...) == y(...) if isinstance(x, Expression) else x == y(...)`
EqualsLambda(items, st, y) ==
    LET x == st.acc
    IN IF x.kind = "expression"
       THEN [acc |-> Value(PyEq(items[x.i], items[y])),
             evaluated |-> st.evaluated \o <<x.i, y>>]
       ELSE [acc |-> Value(PyEq(x.v, items[y])),
             evaluated |-> Append(st.evaluated, y)]

Lambda(class, items, st, y) ==
    IF class = "AND" THEN AndLambda(items, st, y) ELSE EqualsLambda(items, st, y)

\* functools.reduce(function, self.Items) from item y on; without an
\* initial value it starts from the first item itself
RECURSIVE Fold(_, _, _, _)
Fold(class, items, st, y) ==
    IF y > Len(items) THEN st
    ELSE Fold(class, items, Lambda(class, items, st, y), y + 1)

Reduce(class, items) ==
    IF Len(items) = 0
    THEN [acc |-> Raised("TypeError"), evaluated |-> << >>]
    ELSE Fold(class, items, [acc |-> ItemObject(1), evaluated |-> << >>], 2)

\* an expression built from a list of items
ExInit ==
    /\ exClass \in {"AND", "EQUALS"}
    /\ exItems \in ItemLists
    /\ exObjTruthy \in BOOLEAN
    /\ exPc = "built"
    /\ exResult = NotCalled
    /\ exEvaluated = << >>

\* expression(context, event)
Call(class) ==
    /\ exPc = "built"
    /\ exClass = class
    /\ exPc' = "called"
    /\ LET res == Reduce(class, exItems)
       IN /\ exResult' = res.acc
          /\ exEvaluated' = res.evaluated
    /\ UNCHANGED <<exClass, exItems, exObjTruthy>>
    /\ UNCHANGED nonExVars

\* AND.__call__
and_call == Call("AND")

\* EQUALS.__call__
equals_call == Call("EQUALS")

(***************************************************************************)
(* asab/library/providers/filesystem.py: the aggregation of inotify events *)
(*                                                                         *)
(* _on_inotify_read is a reader callback and _on_aggr_timer a coroutine    *)
(* without an await: on the event loop each runs to its end before the     *)
(* other starts, so each is one action.  The timer is read as one that     *)
(* runs its handler once, some time after the last restart.  The kernel    *)
(* numbers the watch descriptors 1, 2, ... and reports an overflow of its  *)
(* event queue as an event with the descriptor -1.                         *)
(***************************************************************************)
\* the paths subscribe is called with
FsPaths == {"/a", "/b"}

FsNoPublication == [p \in FsPaths |-> 0]

\* _subscribe_recursive(subscribed_path, path) for a directory without
\* subdirectories.  outcome: "failed" when inotify_add_watch returns -1,
\* "KeyError" when the watch was added and _list raises, else "watched"
Subscribed(wds, subscribed_path, outcome) ==
    IF outcome = "failed" THEN wds ELSE Append(wds, subscribed_path)

\* the events one os.read can return when there are `watches` watches: of a
\* watched directory (`sub` is the outcome of the subscription when the
\* event is the creation of a directory, else "none") or the overflow of
\* the queue
FsEvents(watches) ==
    [wd : 1..watches, sub : {"none", "watched", "failed", "KeyError"}]
        \cup {[wd |-> -1, sub |-> "none"]}

FsBatches(watches) == UNION {[1..n -> FsEvents(watches)] : n \in 1..MaxBatch}

\* the watches a batch of events tries to add
Additions(batch) ==
    Cardinality({i \in 1..Len(batch) : batch[i].sub \in {"watched", "KeyError"}})

\* the while loop of _on_inotify_read from event i on
RECURSIVE ReadEvents(_, _, _, _)
ReadEvents(batch, i, wds, events) ==
    IF i > Len(batch) THEN [wds |-> wds, events |-> events, error |-> "none"]
    ELSE LET e == batch[i]
         IN IF e.sub = "none"
            THEN ReadEvents(batch, i + 1, wds, Append(events, e.wd))
            ELSE LET wds2 == Subscribed(wds, wds[e.wd], e.sub)
                 IN IF e.sub = "KeyError"
                    THEN [wds |-> wds2, events |-> events, error |-> "KeyError"]
                    ELSE ReadEvents(batch, i + 1, wds2, Append(events, e.wd))

\* FileSystemLibraryProvider.__init__
FsInit ==
    /\ fsWDs = << >>
    /\ fsAggrEvents = << >>
    /\ fsTimer = FALSE
    /\ fsError = "none"
    /\ fsPublished = FsNoPublication
    /\ fsReads = 0
    /\ fsFires = 0

\* FileSystemLibraryProvider.subscribe(path)
subscribe(path, outcome) ==
    /\ Len(fsWDs) < MaxWatches
    /\ fsWDs' = Subscribed(fsWDs, path, outcome)
    /\ fsError' = IF outcome = "KeyError" THEN "KeyError" ELSE "none"
    /\ UNCHANGED <<fsAggrEvents, fsTimer, fsPublished, fsReads, fsFires>>
    /\ UNCHANGED nonFsVars

\* _on_inotify_read: the fd is readable and os.read returns `batch`
on_inotify_read(batch) ==
    /\ fsReads < MaxReads
    /\ Len(fsWDs) >= 1
    /\ batch \in FsBatches(Len(fsWDs))
    /\ Len(fsWDs) + Additions(batch) <= MaxWatches
    /\ fsReads' = fsReads + 1
    /\ LET res == ReadEvents(batch, 1, fsWDs, fsAggrEvents)
       IN /\ fsWDs' = res.wds
          /\ fsAggrEvents' = res.events
          /\ fsError' = res.error
          /\ fsTimer' = IF res.error = "none" THEN TRUE ELSE fsTimer
    /\ UNCHANGED <<fsPublished, fsFires>>
    /\ UNCHANGED nonFsVars

\* `subscribed_path, _ = self.WDs.get(wd)` fails for a descriptor that is
\* not in self.WDs
Unpackable(wds, events) == \A i \in 1..Len(events) : events[i] \in 1..Len(wds)

\* the set to_advertise
ToAdvertise(wds, events) == {wds[events[i]] : i \in 1..Len(events)}

\* _on_aggr_timer: the timer runs its handler
on_aggr_timer ==
    /\ fsTimer
    /\ fsFires < MaxFires
    /\ fsFires' = fsFires + 1
    /\ fsTimer' = FALSE
    /\ IF Unpackable(fsWDs, fsAggrEvents)
       THEN /\ fsAggrEvents' = << >>
            /\ fsPublished' = [p \in FsPaths |->
                                 IF p \in ToAdvertise(fsWDs, fsAggrEvents)
                                 THEN 1 ELSE 0]
            /\ fsError' = "none"
       ELSE \* TypeError before the buffer is cleared
            /\ fsAggrEvents' = fsAggrEvents
            /\ fsPublished' = FsNoPublication
            /\ fsError' = "TypeError"
    /\ UNCHANGED <<fsWDs, fsReads>>
    /\ UNCHANGED nonFsVars

FsNext ==
    \/ \E path \in FsPaths : \E outcome \in {"watched", "failed", "KeyError"} :
          subscribe(path, outcome)
    \/ \E batch \in FsBatches(MaxWatches) : on_inotify_read(batch)
    \/ on_aggr_timer

(***************************************************************************)
(* bspump/mysql/lookup.py: MySQLLookup                                     *)
(*                                                                         *)
(* The database is a list of rows in the order a SELECT returns them; a    *)
(* row is its value of the key column ("None" for NULL) and the rest of    *)
(* its columns.  Several rows may hold the same key.  The cache counter    *)
(* is the sum of the additions made to each of its names.                  *)
(***************************************************************************)
\* the keys looked up
LkKeys == {"k1", "k2"}

\* the rows a table can hold
LkRows == [key : LkKeys \cup {"None"}, val : {1, 2}]

\* the result None of fetchone, and the entry of a key that is not cached
NoRow == [key |-> "None", val |-> 0]
NotCached == [cached |-> FALSE, value |-> NoRow]

LkTables == UNION {[1..n -> LkRows] : n \in 0..MaxRows}

\* MySQLLookup._find_one(key): `... WHERE key=%s`, fetchone
find_one(table, key) ==
    IF \E i \in 1..Len(table) : table[i].key = key
    THEN table[CHOOSE i \in 1..Len(table) :
                  /\ table[i].key = key
                  /\ \A j \in 1..(i - 1) : table[j].key # key]
    ELSE NoRow

\* MySQLLookup.__init__
LkInit ==
    /\ lkTable \in LkTables
    /\ lkCache = [k \in LkKeys |-> NotCached]
    /\ lkIterator = [open |-> FALSE, rest |-> << >>]
    /\ lkCounter = [hit |-> 0, miss |-> 0]
    /\ lkQueries = [k \in LkKeys |-> 0]
    /\ lkLookups = 0
    /\ lkIterCalls = 0
    /\ lkLast = [op |-> "init", key |-> "None", value |-> NoRow]

\* a lookup that does not keep a not-found result
Fetched_unless_not_found(key) ==
    LET v == find_one(lkTable, key)
    IN [cache |-> IF v = NoRow THEN lkCache
                  ELSE [lkCache EXCEPT ![key] = [cached |-> TRUE, value |-> v]],
        value |-> v]

\* MySQLLookup.__getitem__, the `except KeyError:` branch: the cache and the
\* value returned
Fetched(key) ==
    LET v == find_one(lkTable, key)
    IN [cache |-> [lkCache EXCEPT ![key] = [cached |-> TRUE, value |-> v]],
        value |-> v]

\* MySQLLookup.__getitem__(key)
lk_getitem(key) ==
    /\ lkLookups < MaxLookups
    /\ lkLookups' = lkLookups + 1
    /\ IF lkCache[key].cached
       THEN /\ lkCounter' = [lkCounter EXCEPT !.hit = @ + 1]
            /\ lkLast' = [op |-> "getitem", key |-> key,
                          value |-> lkCache[key].value]
            /\ UNCHANGED <<lkCache, lkQueries>>
       ELSE /\ lkQueries' = [lkQueries EXCEPT ![key] = @ + 1]
            /\ lkCache' = Fetched(key).cache
            /\ lkCounter' = [lkCounter EXCEPT !.miss = @ + 1]
            /\ lkLast' = [op |-> "getitem", key |-> key,
                          value |-> Fetched(key).value]
    /\ UNCHANGED <<lkTable, lkIterator, lkIterCalls>>
    /\ UNCHANGED nonLkVars

\* MySQLLookup.__iter__
lk_iter ==
    /\ lkIterCalls < MaxIterCalls
    /\ lkIterCalls' = lkIterCalls + 1
    /\ lkIterator' = [open |-> TRUE, rest |-> lkTable]
    /\ lkLast' = [op |-> "iter", key |-> "None", value |-> NoRow]
    /\ UNCHANGED <<lkTable, lkCache, lkCounter, lkQueries, lkLookups>>
    /\ UNCHANGED nonLkVars

\* MySQLLookup.__next__; at the end of the rows next() raises StopIteration
lk_next ==
    /\ lkIterator.open
    /\ lkIterCalls < MaxIterCalls
    /\ lkIterCalls' = lkIterCalls + 1
    /\ IF Len(lkIterator.rest) = 0
       THEN /\ lkLast' = [op |-> "StopIteration", key |-> "None", value |-> NoRow]
            /\ UNCHANGED <<lkCache, lkIterator>>
       ELSE LET element == Head(lkIterator.rest)
            IN /\ lkIterator' = [lkIterator EXCEPT !.rest = Tail(@)]
               /\ lkCache' = IF element.key # "None"
                             THEN [lkCache EXCEPT ![element.key] =
                                     [cached |-> TRUE, value |-> element]]
                             ELSE lkCache
               /\ lkLast' = [op |-> "next", key |-> element.key,
                             value |-> element]
    /\ UNCHANGED <<lkTable, lkCounter, lkQueries, lkLookups>>
    /\ UNCHANGED nonLkVars

LkNext ==
    \/ \E key \in LkKeys : lk_getitem(key)
    \/ lk_iter
    \/ lk_next

(***************************************************************************)
(* Specifications                                                          *)
(***************************************************************************)
\* the application alone, before any service or module is registered
AppQuiet == AppInit /\ nServices = 0 /\ nModules = 0

\* the application (asab/application.py)
\* the LDAP source with no cycle started
LdapQuiet == LdapInit /\ ldapPages = <<0>>

\* a DutyCycle metric constructed without init_values
DcQuiet == DcInit /\ dcInit = <<>>

\* a Counter without init_values, static tags and reset
CtQuiet ==
    /\ CtInit
    /\ ctKind = "Counter"
    /\ ~ctReset
    /\ ctInit.none
    /\ ctStatic = NoTags

\* a Histogram with the buckets [1, 5, 10], without reset
HQuiet == HInit /\ ~hReset

\* an AND expression of one item
ExQuiet == ExInit /\ exClass = "AND" /\ exItems = <<1>> /\ exObjTruthy

\* a MySQLLookup of an empty table
LkQuiet == lkTable = << >> /\ LkInit

\* the expression, the library provider and the lookup as constructed
RestQuiet == ExQuiet /\ FsInit /\ LkQuiet

Init == AppInit /\ AlertInit /\ LdapQuiet /\ DcQuiet /\ CtQuiet /\ HQuiet /\ RestQuiet
Next == AppNext
Spec == Init /\ [][Next]_vars

\* The event loop runs every task that is ready, every awaited life-cycle
\* callback returns or raises, and run() is called after construction; only
\* stop requests are at the discretion of the environment.  A governor
\* waiting at cycle_no > MaxTicks stands for one that keeps ticking.
FairSpec == Init /\ [][Next]_vars /\ WF_vars(AppProgress)

\* the alert service (bspump/asab/alert.py)
InitAlert == AppQuiet /\ AlertInit /\ LdapQuiet /\ DcQuiet /\ CtQuiet /\ HQuiet /\ RestQuiet
NextAlert == AlertNext
SpecAlert == InitAlert /\ [][NextAlert]_vars

\* the LDAP source and its pipeline (bspump/ldap/source.py)
InitLdap == AppQuiet /\ AlertInit /\ LdapInit /\ DcQuiet /\ CtQuiet /\ HQuiet /\ RestQuiet
NextLdap == LdapNext
SpecLdap == InitLdap /\ [][NextLdap]_vars

\* the DutyCycle metric (asab/metrics/metrics.py)
InitDc == AppQuiet /\ AlertInit /\ LdapQuiet /\ DcInit /\ CtQuiet /\ HQuiet /\ RestQuiet
NextDc == DcNext
SpecDc == InitDc /\ [][NextDc]_vars

\* the Gauge metric (asab/metrics/metrics.py), with and without static tags
InitGauge ==
    /\ AppQuiet /\ AlertInit /\ LdapQuiet /\ DcQuiet /\ HQuiet /\ RestQuiet
    /\ CtInit /\ ctKind = "Gauge"
NextGauge == GaugeNext
SpecGauge == InitGauge /\ [][NextGauge]_vars

\* the Counter and AggregationCounter metrics
InitCounter ==
    /\ AppQuiet /\ AlertInit /\ LdapQuiet /\ DcQuiet /\ HQuiet /\ CtInit /\ RestQuiet
    /\ ctKind \in {"Counter", "AggregationCounter"}
    /\ ctStatic = NoTags
NextCounter == CounterNext
SpecCounter == InitCounter /\ [][NextCounter]_vars

\* the EPSCounter metric
InitEPS ==
    /\ AppQuiet /\ AlertInit /\ LdapQuiet /\ DcQuiet /\ HQuiet /\ CtInit /\ RestQuiet
    /\ ctKind = "EPSCounter"
    /\ ctStatic = NoTags
NextEPS == EPSNext
SpecEPS == InitEPS /\ [][NextEPS]_vars

\* the Histogram metric with the buckets [1, 5, 10]
InitHist == AppQuiet /\ AlertInit /\ LdapQuiet /\ DcQuiet /\ CtQuiet /\ HInit /\ RestQuiet
NextHist == HistNext
SpecHist == InitHist /\ [][NextHist]_vars

\* the construction of a Histogram from a bucket list
InitHistNew == AppQuiet /\ AlertInit /\ LdapQuiet /\ DcQuiet /\ CtQuiet /\ HNew /\ RestQuiet
NextHistNew == hist_construct
SpecHistNew == InitHistNew /\ [][NextHistNew]_vars

\* an AND expression called once (bspump/declarative/expression/logical/andexpr.py)
InitAnd ==
    /\ AppQuiet /\ AlertInit /\ LdapQuiet /\ DcQuiet /\ CtQuiet /\ HQuiet
    /\ ExInit /\ exClass = "AND" /\ FsInit /\ LkQuiet
NextAnd == and_call
SpecAnd == InitAnd /\ [][NextAnd]_vars

\* an EQUALS expression called once (.../logical/equalsexpr.py)
InitEquals ==
    /\ AppQuiet /\ AlertInit /\ LdapQuiet /\ DcQuiet /\ CtQuiet /\ HQuiet
    /\ ExInit /\ exClass = "EQUALS" /\ FsInit /\ LkQuiet
NextEquals == equals_call
SpecEquals == InitEquals /\ [][NextEquals]_vars

\* the file-system library provider (asab/library/providers/filesystem.py)
InitFs ==
    /\ AppQuiet /\ AlertInit /\ LdapQuiet /\ DcQuiet /\ CtQuiet /\ HQuiet
    /\ ExQuiet /\ FsInit /\ LkQuiet
NextFs == FsNext
SpecFs == InitFs /\ [][NextFs]_vars

\* the MySQL lookup (bspump/mysql/lookup.py)
InitLk ==
    /\ AppQuiet /\ AlertInit /\ LdapQuiet /\ DcQuiet /\ CtQuiet /\ HQuiet
    /\ ExQuiet /\ FsInit /\ LkInit
NextLk == LkNext
SpecLk == InitLk /\ [][NextLk]_vars

(***************************************************************************)
(* Claims about asab/application.py                                        *)
(***************************************************************************)

\* C1: the k-th Application.tick! (k counted from 1 since Application.run!)
\* comes, in the same governor iteration, with Application.tick/N! exactly
\* for the N of {10, 60, 300, 600, 1800, 3600, 43200, 86400} that divide k;
\* so tick/N! has been published k div N times after k ticks, and after 65
\* ticks there were 65 tick!, 6 tick/10! and 1 tick/60!.
C1_TickMultiples ==
    /\ [][published.tick' # published.tick =>
            /\ published.tick' = published.tick + 1
            /\ published.run = 1
            /\ \A N \in TickDivisors :
                  published.tickN'[N] - published.tickN[N] =
                      IF published.tick' % N = 0 THEN 1 ELSE 0]_vars
    /\ [](\A N \in TickDivisors : published.tickN[N] = published.tick \div N)
    /\ [](published.tick = 65 =>
            /\ published.tickN[10] = 6
            /\ published.tickN[60] = 1
            /\ \A N \in TickDivisors \ {10, 60} : published.tickN[N] = 0)

C1_Witness ==
    /\ published.tick = 65
    /\ published.tickN[10] = 6
    /\ published.tickN[60] = 1

\* C2: Application.init!, Application.run! and Application.exit! are each
\* published at most once, in that order, all three exactly once when run()
\* has returned, and Application.exit! is published only after the run-time
\* governor has ended its tick loop.
C2_LifecycleOnceInOrder ==
    /\ published.init <= 1 /\ published.run <= 1 /\ published.exit <= 1
    /\ (published.run >= 1 => published.init >= 1)
    /\ (published.exit >= 1 => published.run >= 1)
    /\ (phase = "closed" =>
            published.init = 1 /\ published.run = 1 /\ published.exit = 1)
    /\ (published.exit >= 1 => govPc = "done")

\* the part of C2 that does not depend on the governor having ended
C2_OrderOnly ==
    /\ published.init <= 1 /\ published.run <= 1 /\ published.exit <= 1
    /\ (published.run >= 1 => published.init >= 1)
    /\ (published.exit >= 1 => published.run >= 1)
    /\ (phase = "closed" =>
            published.init = 1 /\ published.run = 1 /\ published.exit = 1)

\* C3: every stop request (fewer than three of them, main() returning)
\* eventually makes the run-time governor leave its tick loop and the exit
\* phase run, whether it arrived in the init phase or in the run phase.  The
\* governor leaves the loop only through the stop event, so a request that
\* was made has to be pending in the event for as long as the governor is in
\* its loop: in every state where a stop was requested and the governor
\* waits, the stop event is set.
C3_StopRequestReachesGovernor ==
    (stopCalls >= 1 /\ ~emergency /\ govPc = "wait") => stop_event

\* C3 as a leads-to property, for FairSpec
C3_StopLeadsToExit ==
    (stopCalls >= 1) ~>
        \/ emergency
        \/ mainTask = "raised"
        \/ govPc = "done" /\ published.exit >= 1

\* the same for the stop requests that arrive in the run phase only
C3_RunPhaseStopLeadsToExit ==
    (phase = "run" /\ stop_event) ~>
        \/ emergency
        \/ mainTask = "raised"
        \/ govPc = "done" /\ published.exit >= 1

\* C4: the emergency exit has happened exactly when stop() was called three
\* times since construction, whatever the phases the calls fell into: the
\* counter is the number of calls and run() does not reset it.
C4_EmergencyAtThirdStop ==
    /\ (emergency <=> stopCalls >= 3)
    /\ (stopCalls <= 2 => ~emergency)
    /\ stop_counter = stopCalls

C4_Witness ==
    /\ emergency
    /\ stopCalls = 3
    /\ phase = "run"

(***************************************************************************)
(* Claims about bspump/asab/alert.py                                       *)
(***************************************************************************)
CallbackRuns(p) ==
    \E i \in 1..Len(tasks[p]) :
        tasks[p][i].cb = "pending" /\ tasks'[p][i].cb = "ran"

CallbackPending(p) == \E i \in 1..Len(tasks[p]) : tasks[p][i].cb = "pending"

\* C5: whenever the worker task of a provider that has not been finalized
\* has ended, normally or with an exception, its done-callback starts a new
\* worker: after the callback the provider has a running worker.
C5_WorkerRestarted ==
    [][\A p \in Providers :
          (CallbackRuns(p) /\ ~provFin[p]) => LiveWorkers(p)' # {}]_vars

\* the part of C5 about a worker that returned normally
C5_ReturnedWorkerRestarted ==
    [][\A p \in Providers : \A i \in 1..Len(tasks[p]) :
          (/\ tasks[p][i].cb = "pending" /\ tasks'[p][i].cb = "ran"
           /\ tasks[p][i].st = "returned" /\ ~provFin[p])
          => LiveWorkers(p)' # {}]_vars

\* C6: every alert triggered is enqueued exactly once in the queue of every
\* provider and is taken from it by the worker in the order of triggering,
\* and none is left queued for ever: between initialize and finalize a
\* provider with alerts in its queue has a worker to take them (a running
\* one, or an ended one whose done-callback is still to run).
C6_AlertsTaken ==
    \A p \in Providers :
        /\ taken[p] \o Queue[p] = [a \in 1..(nextAlert - 1) |-> a]
        /\ (provInit[p] /\ ~provFin[p] /\ Queue[p] # <<>>)
              => (LiveWorkers(p) # {} \/ CallbackPending(p))

\* the part of C6 about enqueueing once and taking in order
C6_Order ==
    \A p \in Providers :
        taken[p] \o Queue[p] = [a \in 1..(nextAlert - 1) |-> a]

\* C7: at every moment a provider has at most one live worker task.
C7_SingleWorker ==
    \A p \in Providers : Cardinality(LiveWorkers(p)) <= 1

\* a worker was restarted and the provider was then finalized while the
\* second worker was live
C7_Witness ==
    \E p \in Providers :
        /\ Len(tasks[p]) >= 2
        /\ provFin[p]
        /\ LiveWorkers(p) # {}

C8_NoRestartAfterFinalize ==
    /\ [][\A p \in Providers : provFin[p] => Len(tasks'[p]) = Len(tasks[p])]_vars
    /\ [](\A p \in Providers : provFin[p] =>
            /\ MainTask[p] = None
            /\ \A i \in LiveWorkers(p) : tasks[p][i].cancelReq)

(***************************************************************************)
(* Claims about bspump/ldap/source.py                                      *)
(***************************************************************************)
Emits == Len(delivered') > Len(delivered)

\* C9: between any two successive events the LDAP source emits (within a
\* page, across pages) there is a moment at which the pipeline is ready: a
\* pipeline throttled by the processing of an event receives no further
\* event until it has been ready again.
C9_ReadyBetweenEmissions ==
    [][(Emits /\ Len(delivered) >= 1) => readySince]_vars

\* C9, the means: the source awaits Pipeline.ready() between two emissions
C9_ReadyAwaitedBetweenEmissions ==
    [][(Emits /\ Len(delivered) >= 1) => readyAwaited]_vars

\* the first emission of a cycle does follow an await of ready()
C9_ReadyAwaitedInCycle ==
    [][(Emits /\ cycles = 1 /\ Len(delivered) = 0) => readyAwaited]_vars

(***************************************************************************)
(* Claims about asab/metrics/metrics.py, DutyCycle                         *)
(***************************************************************************)
\* the step is a call of flush(now) that returned
Flushed == dcLast'.op = "flush" /\ dcError' = "none"

\* the record of a name after flush(now) has credited the time in the
\* current state and rolled the accumulators
RolledRec(rec, now) == [EmptyValue(now) EXCEPT !.on_off = rec.on_off]

\* the ratio flush(now) is to store for a record
Ratio(rec, now) ==
    LET d == now - rec.timestamp
        on == IF rec.on_off THEN rec.on_cycle + d ELSE rec.on_cycle
        off == IF rec.on_off THEN rec.off_cycle ELSE rec.off_cycle + d
    IN [set |-> on + off > 0, on |-> on, full |-> on + off]

\* name `e.name` of field `before` has been flushed in field `after`
NameFlushed(before, after, e, now) ==
    LET rec == Deref(e, dcInit)
    IN /\ Has(after.actuals, e.name)
       /\ Deref(after.actuals[IdxOf(after.actuals, e.name)], dcInit')
            = RolledRec(rec, now)
       /\ Ratio(rec, now).set => after.values[e.name] = Ratio(rec, now)

\* C10: flush(now) stores, for every surviving field and every name the
\* field tracks, on/(on+off) with the time in the current state credited up
\* to now, and rolls that name's accumulators (on and off to 0, timestamp to
\* now, state kept), whatever the number of names of the field.
C10_FlushComputesAndRolls ==
    [][Flushed =>
        LET survivors == Unexpired(dcFieldset, clock')
        IN \A j \in 1..Len(survivors) :
             \A k \in 1..Len(survivors[j].actuals) :
                NameFlushed(survivors[j], dcFieldset'[j],
                            survivors[j].actuals[k], dcLast'.now)]_vars

\* C10 for the name flush does reach, the last one of each field
C10_LastNameFlushed ==
    [][Flushed =>
        LET survivors == Unexpired(dcFieldset, clock')
        IN \A j \in 1..Len(survivors) :
             LET names == survivors[j].actuals
             IN Len(names) >= 1 =>
                  NameFlushed(survivors[j], dcFieldset'[j],
                              names[Len(names)], dcLast'.now)]_vars

\* the step is a call of DutyCycle.set
DcWritten == dcLast'.op = "set"

\* C11 (DutyCycle.set): every write sets the expires_at of the field it
\* writes to the current time plus the expiration, also when it creates a
\* new name in the field and when it does not change the stored state.
C11_WriteRefreshesExpiry ==
    [][DcWritten =>
        dcFieldset'[dcLast'.field].expires_at = clock + Expiration]_vars

\* C11 for the writes of DutyCycle.set that switch the state of a name the
\* field already tracks
C11_SwitchRefreshesExpiry ==
    [][(DcWritten /\ dcLast'.field <= Len(dcFieldset)
          /\ \E k \in 1..Len(dcFieldset[dcLast'.field].actuals) :
                Deref(dcFieldset'[dcLast'.field].actuals[k], dcInit')
                    # Deref(dcFieldset[dcLast'.field].actuals[k], dcInit))
        => dcFieldset'[dcLast'.field].expires_at = clock + Expiration]_vars

(***************************************************************************)
(* Claims about asab/metrics/metrics.py, Metric, Gauge and the counters    *)
(***************************************************************************)
\* the step is a call of flush
CtFlushed == ctLast'.op = "flush"

\* the step is a call of a write method
CtWritten == ctLast'.op \in {"set", "add", "sub"}

\* the fieldset without its expired fields, judged against `now`
Unevicted(fieldset, now) ==
    SelectSeq(fieldset, LAMBDA field : ~(now > field.expires_at))

\* fieldset `after` has the fields of `before`, with their tags and expiry
SameFields(before, after) ==
    /\ Len(after) = Len(before)
    /\ \A i \in 1..Len(before) :
          /\ after[i].tags = before[i].tags
          /\ after[i].expires_at = before[i].expires_at
          /\ ctKind = "Gauge" => after[i].values = before[i].values

\* C12: flush(now) removes exactly the fields with now > expires_at, judged
\* against the `now` it is given, and keeps every other field with its tags
\* and data.
C12_FlushEvictsExpired ==
    [][CtFlushed => SameFields(Unevicted(ctFieldset, ctLast'.now), ctFieldset')]_vars

\* C12 with the expiry judged against App.time() as flush reads it
C12_FlushEvictsByAppTime ==
    [][CtFlushed => SameFields(Unevicted(ctFieldset, ctTime'), ctFieldset')]_vars

\* C12, the fresh field: a write that finds no field with its tags appends
\* one made from Init
C12_FreshField ==
    [][(CtWritten /\ ctLast'.field > Len(ctFieldset)) =>
         /\ Len(ctFieldset') = Len(ctFieldset) + 1
         /\ \A k \in DOMAIN ctFieldset'[ctLast'.field].values :
               \/ k \in DOMAIN InitDict(ctInit)
                    /\ ctFieldset'[ctLast'.field].values[k] = Val(InitDict(ctInit)[k])
               \/ ctFieldset'[ctLast'.field].values[k] \in {Val(v) : v \in CtValues}]_vars

\* the tags of the argument laid under the static tags
Overlaid(arg) ==
    LET given == CtTagDict(arg)
    IN [k \in (DOMAIN given) \cup (DOMAIN ctStatic) |->
          IF k \in DOMAIN ctStatic THEN ctStatic[k] ELSE given[k]]

\* the lookup key of locate_field(tags)
LookupKey(arg) == IF arg = "None" THEN ctStatic ELSE Overlaid(arg)

\* C15: locate_field(tags) returns the only field when tags is None and the
\* fieldset has exactly one field, whatever its tags; otherwise it returns
\* the existing field whose tags equal the given tags overlaid with the
\* static tags (static wins; the static tags alone for None), and appends a
\* new field with those tags only when no such field exists.  No other field
\* is touched.
C15_LocateField ==
    [][CtWritten =>
        LET arg == ctLast'.arg
            f == ctLast'.field
            n == Len(ctFieldset)
        IN /\ IF arg = "None" /\ n = 1
              THEN f = 1 /\ Len(ctFieldset') = 1
                   /\ ctFieldset'[1].tags = ctFieldset[1].tags
              ELSE IF \E i \in 1..n : ctFieldset[i].tags = LookupKey(arg)
              THEN /\ f \in 1..n
                   /\ ctFieldset[f].tags = LookupKey(arg)
                   /\ ctFieldset'[f].tags = LookupKey(arg)
                   /\ Len(ctFieldset') = n
              ELSE /\ f = n + 1
                   /\ Len(ctFieldset') = n + 1
                   /\ ctFieldset'[f].tags = LookupKey(arg)
           /\ \A i \in 1..n : i # f => ctFieldset'[i] = ctFieldset[i]]_vars

\* a write with tags=None went to the only field, whose tags are not the
\* static tags
C15_Witness ==
    /\ ctLast.op = "set"
    /\ ctLast.arg = "None"
    /\ Len(ctFieldset) = 1
    /\ ctFieldset[1].tags # ctStatic
    /\ ctWrites = 2

\* a write with tags sharing a key with the static tags went to the field of
\* the static value
C15_StaticWins ==
    /\ ctLast.op = "set"
    /\ ctLast.arg = "A"
    /\ ctStatic # NoTags
    /\ ctFieldset[ctLast.field].tags = ctStatic

\* C16: no two fields of a metric's fieldset have equal tags, after any
\* sequence of writes with any tag arguments and flushes.
C16_UniqueTags ==
    \A i \in 1..Len(ctFieldset) : \A j \in 1..Len(ctFieldset) :
        i # j => ctFieldset[i].tags # ctFieldset[j].tags

\* the fieldset has two fields and the last write was one with tags=None
C16_Witness ==
    /\ Len(ctFieldset) >= 2
    /\ ctLast.op = "set"
    /\ ctLast.arg = "None"

\* the value of a name in a dict, 0 when the dict does not have the name
Get0(dict, name) == IF name \in DOMAIN dict THEN dict[name] ELSE 0

\* the actuals of a Counter field are Init plus the additions less the
\* subtractions since the field was created or last reset
ActualsAreSums(field) ==
    /\ DOMAIN field.actuals = (DOMAIN InitDict(ctInit)) \cup (DOMAIN field.added)
    /\ \A name \in DOMAIN field.actuals :
          field.actuals[name] =
              Get0(InitDict(ctInit), name) + Get0(field.added, name)

\* flush has copied the actuals of a Counter field into its values and has
\* reset the actuals in reset mode only
CopiedAndReset(before, after) ==
    /\ after.values = Vals(before.actuals)
    /\ after.actuals = IF ctReset THEN InitDict(ctInit) ELSE before.actuals

\* C13: the actuals of a Counter are, per name, the initial value (from
\* Init, else 0) plus the values added less the values subtracted since the
\* creation or last reset of the field; flush copies the actuals of every
\* surviving field into its values and then, in reset mode, sets the
\* actuals back to Init (or empty), in non-reset mode leaves them.
C13_CounterSums ==
    /\ [](ctKind = "Counter" =>
            \A i \in 1..Len(ctFieldset) : ActualsAreSums(ctFieldset[i]))
    /\ [][(ctKind = "Counter" /\ CtFlushed) =>
            LET kept == Kept(ctFieldset, ctTime')
            IN /\ Len(ctFieldset') = Len(kept)
               /\ \A i \in 1..Len(kept) : CopiedAndReset(kept[i], ctFieldset'[i])]_vars

\* a Counter in reset mode has been flushed after additions: the values hold
\* the sums and the actuals are back at Init
C13_Witness ==
    /\ ctKind = "Counter"
    /\ ctReset
    /\ ctLast.op = "flush"
    /\ ctWrites = 2
    /\ \E i \in 1..Len(ctFieldset) :
          /\ ctFieldset[i].values # Vals(InitDict(ctInit))
          /\ ctFieldset[i].actuals = InitDict(ctInit)

(***************************************************************************)
(* Claims about EPSCounter and about flushing twice                        *)
(***************************************************************************)
\* the elapsed time EPSCounter.flush(now) is to divide by: now - LastTime,
\* at least one tick (one second)
Elapsed(now) == IF now - ctLastTime < 1 THEN 1 ELSE now - ctLastTime

\* C14: EPSCounter.flush(now) sets values[k], for every surviving field and
\* every name k, to actuals[k] divided by the elapsed time now - LastTime,
\* never dividing by less than one tick, and then resets the actuals to Init
\* (or empty) in reset mode.
C14_EPSRates ==
    [][(ctKind = "EPSCounter" /\ CtFlushed) =>
        LET kept == Kept(ctFieldset, ctTime')
        IN /\ Len(ctFieldset') = Len(kept)
           /\ \A i \in 1..Len(kept) :
                /\ DOMAIN ctFieldset'[i].values = DOMAIN kept[i].actuals
                /\ \A k \in DOMAIN kept[i].actuals :
                      \* values[k] = actuals[k] / elapsed, as exact quotients
                      ctFieldset'[i].values[k].n * Elapsed(ctLast'.now)
                          = kept[i].actuals[k] * ctFieldset'[i].values[k].d
                /\ ctFieldset'[i].actuals =
                      IF ctReset THEN InitDict(ctInit) ELSE kept[i].actuals]_vars

\* C14 for the flushes with now later than LastTime
C14_EPSRatesAfterLastTime ==
    [][(ctKind = "EPSCounter" /\ CtFlushed /\ ctLast'.now > ctLastTime) =>
        LET kept == Kept(ctFieldset, ctTime')
        IN /\ Len(ctFieldset') = Len(kept)
           /\ \A i \in 1..Len(kept) :
                /\ DOMAIN ctFieldset'[i].values = DOMAIN kept[i].actuals
                /\ \A k \in DOMAIN kept[i].actuals :
                      ctFieldset'[i].values[k].n * (ctLast'.now - ctLastTime)
                          = kept[i].actuals[k] * ctFieldset'[i].values[k].d
                /\ ctFieldset'[i].actuals =
                      IF ctReset THEN InitDict(ctInit) ELSE kept[i].actuals]_vars

\* two dicts of stored quotients hold equal numbers under equal names
SameValues(v, w) ==
    /\ DOMAIN v = DOMAIN w
    /\ \A k \in DOMAIN v : v[k].n * w[k].d = w[k].n * v[k].d

\* the step is a flush and the operation before it was a flush too
CtFlushedTwice == ctLast.op = "flush" /\ ctLast'.op = "flush"

\* C17: a flush immediately followed by a second flush, with no write in
\* between, leaves the values of every field after the second flush equal
\* to its values after the first, in reset mode as in non-reset mode.
C17_FlushIdempotent ==
    [][CtFlushedTwice =>
        LET kept == Kept(ctFieldset, ctTime')
        IN /\ Len(ctFieldset') = Len(kept)
           /\ \A i \in 1..Len(kept) :
                 SameValues(kept[i].values, ctFieldset'[i].values)]_vars

\* C17 for the metrics that are not in reset mode
C17_FlushIdempotentWithoutReset ==
    [][(CtFlushedTwice /\ ~ctReset) =>
        LET kept == Kept(ctFieldset, ctTime')
        IN /\ Len(ctFieldset') = Len(kept)
           /\ \A i \in 1..Len(kept) :
                 SameValues(kept[i].values, ctFieldset'[i].values)]_vars

(***************************************************************************)
(* Claims about Histogram                                                  *)
(***************************************************************************)
\* how many of the recordings in S a field has seen
RECURSIVE Recordings(_, _)
Recordings(recorded, S) ==
    IF S = {} THEN 0
    ELSE LET r == CHOOSE r \in S : TRUE
         IN recorded[r] + Recordings(recorded, S \ {r})

\* the total of the values of the recordings in S
RECURSIVE RecordedTotal(_, _)
RecordedTotal(recorded, S) ==
    IF S = {} THEN 0
    ELSE LET r == CHOOSE r \in S : TRUE
         IN recorded[r] * r[2] + RecordedTotal(recorded, S \ {r})

\* the total of a dict of counts
RECURSIVE DictTotal(_, _)
DictTotal(dict, S) ==
    IF S = {} THEN 0
    ELSE LET k == CHOOSE k \in S : TRUE
         IN dict[k] + DictTotal(dict, S \ {k})

\* the actuals of a field are the cumulative counts, the count and the sum
\* of what was recorded
ActualsAreCounts(field) ==
    /\ \A b \in hKeys : \A n \in HNames :
          Get0(field.actuals.buckets[b], n) =
              Recordings(field.recorded, {r \in HNames \X HValues :
                                             r[1] = n /\ r[2] <= b})
    /\ field.actuals.count = Recordings(field.recorded, HNames \X HValues)
    /\ field.actuals.count =
          DictTotal(field.actuals.buckets[Inf], DOMAIN field.actuals.buckets[Inf])
    /\ field.actuals.sum = RecordedTotal(field.recorded, HNames \X HValues)

\* C18: after any sequence of Histogram.set on a field since its creation
\* or last reset, the count stored for a value name under a bound b is the
\* number of the values recorded under that name with v <= b, count is the
\* number of recorded values (and the total of the +infinity bucket) and sum
\* is their total.
C18_CumulativeCounts ==
    hPc = "constructed" =>
        \A i \in 1..Len(hFieldset) : ActualsAreCounts(hFieldset[i])

\* 0.5 and 1 were recorded under v1 and 12 under v2: the bucket of bound 1
\* counts 2 for v1, the value on the bound included
C18_Witness ==
    /\ hPc = "constructed"
    /\ hWrites = 3
    /\ \E i \in 1..Len(hFieldset) :
          /\ hFieldset[i].recorded[<<"v1", 1>>] = 1
          /\ hFieldset[i].recorded[<<"v1", 2>>] = 1
          /\ hFieldset[i].recorded[<<"v2", 24>>] = 1
          /\ hFieldset[i].actuals.buckets[2] = [v1 |-> 2]
          /\ hFieldset[i].actuals.buckets[Inf] = [v1 |-> 2, v2 |-> 1]
          /\ hFieldset[i].actuals.count = 3
          /\ hFieldset[i].actuals.sum = 27

\* the example of C18: buckets [1, 5, 10] with the values 0.5, 2, 7 and 12
\* give the counts 1, 2, 3, 4, the sum 21.5 and the count 4
C18_Example ==
    \A i \in 1..Len(hFieldset) :
        (/\ \A v \in {1, 4, 14, 24} : hFieldset[i].recorded[<<"v1", v>>] = 1
         /\ Recordings(hFieldset[i].recorded, HNames \X HValues) = 4)
        => /\ hFieldset[i].actuals.buckets =
                 (2 :> [v1 |-> 1] @@ 10 :> [v1 |-> 2] @@ 20 :> [v1 |-> 3]
                    @@ Inf :> [v1 |-> 4])
           /\ hFieldset[i].actuals.sum = 43
           /\ hFieldset[i].actuals.count = 4

\* the counts of one name are ascending with the bounds
Monotonic(data) ==
    \A n \in HNames : \A b1 \in DOMAIN data.buckets : \A b2 \in DOMAIN data.buckets :
        b1 < b2 => Get0(data.buckets[b1], n) <= Get0(data.buckets[b2], n)

\* C19: in every state of a Histogram, in the actuals and in the values of
\* every field and for every value name, the count under a bound b1 is at
\* most the count under any bound b2 > b1 (a missing entry counting as 0),
\* across any interleaving of set and flush, with and without reset.
C19_Monotonic ==
    hPc = "constructed" =>
        \A i \in 1..Len(hFieldset) :
            Monotonic(hFieldset[i].actuals) /\ Monotonic(hFieldset[i].values)

\* a flushed field whose values count a name under +infinity more often
\* than under the lowest bound, with actuals recorded after the flush
C19_Witness ==
    /\ hPc = "constructed"
    /\ hFlushes = 1
    /\ hLast.op = "set"
    /\ \E i \in 1..Len(hFieldset) : \E n \in HNames :
          /\ Get0(hFieldset[i].values.buckets[2], n) >= 1
          /\ Get0(hFieldset[i].values.buckets[2], n)
                < Get0(hFieldset[i].values.buckets[Inf], n)
          /\ hFieldset[i].actuals.count >= 1
          /\ hFieldset[i].actuals # hFieldset[i].values

\* the list is strictly ascending
StrictlyAscending(list) == \A i \in 1..(Len(list) - 1) : list[i] < list[i + 1]

\* the list with the implicit +infinity bucket
Completed(list) ==
    IF Len(list) = 0 \/ list[Len(list)] # Inf THEN Append(list, Inf) ELSE list

\* C20: constructing a Histogram fails with ValueError for every bucket
\* list that is not strictly ascending (a repeated bound included) and for
\* every list with fewer than two buckets after the implicit +infinity is
\* appended; an accepted list gives the given bounds plus +infinity as the
\* bucket set, +infinity being added only when it is not the last bound.
C20_ConstructorRejects ==
    hPc # "new" =>
        /\ hPc = "ValueError" <=>
              (~StrictlyAscending(hArg) \/ Len(Completed(hArg)) < 2)
        /\ hPc = "constructed" =>
              /\ hKeys = BucketKeys(hArg) \cup {Inf}
              /\ hBuckets = Completed(hArg)

\* C20 with lists in ascending order that repeat a bound let through
C20_RejectsUnsorted ==
    hPc # "new" =>
        /\ hPc = "ValueError" <=>
              (\E i \in 1..(Len(hArg) - 1) : hArg[i] > hArg[i + 1])
                 \/ Len(Completed(hArg)) < 2
        /\ hPc = "constructed" =>
              /\ hKeys = BucketKeys(hArg) \cup {Inf}
              /\ hBuckets = Completed(hArg)

(***************************************************************************)
(* Claims about DutyCycle.set                                              *)
(***************************************************************************)
\* the record of `name` in field f of a fieldset
RecordOf(fieldset, init, f, name) ==
    Deref(fieldset[f].actuals[IdxOf(fieldset[f].actuals, name)], init)

\* the field set(name, ...) located tracks the name before the write: an
\* existing field by its actuals, a field just added by init_values
Known(f, name) ==
    IF f <= Len(dcFieldset) THEN Has(dcFieldset[f].actuals, name)
    ELSE Has(dcInit, name)

\* the record of the name in the located field before the write
Before(f, name) ==
    IF f <= Len(dcFieldset) THEN RecordOf(dcFieldset, dcInit, f, name)
    ELSE dcInit[IdxOf(dcInit, name)].rec

\* C21: DutyCycle.set(name, on_off) leaves state, timestamp and both
\* accumulators of the name alone when the recorded state equals on_off;
\* when it differs, it adds the time since the name's timestamp to the off
\* accumulator on a switch to on and to the on accumulator on a switch to
\* off, leaves the other accumulator, and updates state and timestamp; the
\* first set of an unknown name records the state with both accumulators 0.
C21_SetSwitches ==
    [][DcWritten =>
        LET f == dcLast'.field
            name == dcLast'.name
            on_off == dcLast'.on_off
            after == RecordOf(dcFieldset', dcInit', f, name)
        IN /\ Has(dcFieldset'[f].actuals, name)
           /\ IF ~Known(f, name)
              THEN /\ after.on_off = on_off
                   /\ after.timestamp = clock
                   /\ after.on_cycle = 0 /\ after.off_cycle = 0
              ELSE LET before == Before(f, name)
                       elapsed == clock - before.timestamp
                   IN IF before.on_off = on_off
                      THEN after = before
                      ELSE /\ after.on_off = on_off
                           /\ after.timestamp = clock
                           /\ after.off_cycle =
                                 before.off_cycle + (IF on_off THEN elapsed ELSE 0)
                           /\ after.on_cycle =
                                 before.on_cycle + (IF on_off THEN 0 ELSE elapsed)]_vars

\* a name was switched off after having been on for some time
C21_Witness ==
    /\ dcLast.op = "set"
    /\ ~dcLast.on_off
    /\ dcCalls >= 2
    /\ Has(dcFieldset[dcLast.field].actuals, dcLast.name)
    /\ RecordOf(dcFieldset, dcInit, dcLast.field, dcLast.name).on_cycle >= 1
    /\ RecordOf(dcFieldset, dcInit, dcLast.field, dcLast.name).timestamp = clock

\* ---- C22 ----
\* C22: every ratio DutyCycle.flush has stored in the values of a field lies
\* in [0, 1]: its on time is at least 0 and at most its full cycle, which is
\* positive
C22_RatioInUnitInterval ==
    \A f \in 1..Len(dcFieldset) : \A name \in Names :
        LET v == dcFieldset[f].values[name]
        IN v.set => (v.full > 0 /\ 0 <= v.on /\ v.on <= v.full)

\* a flush stored a ratio strictly between 0 and 1 for a name that was
\* switched before
C22_Witness ==
    /\ dcLast.op = "flush"
    /\ \E f \in 1..Len(dcFieldset) : \E name \in Names :
          LET v == dcFieldset[f].values[name]
          IN v.set /\ 0 < v.on /\ v.on < v.full

(***************************************************************************)
(* Claims about the AND and EQUALS expressions                             *)
(***************************************************************************)
\* bool(result) of what __call__ returned
Truthy(result) ==
    IF result.kind = "expression" THEN exObjTruthy
    ELSE result.kind = "value" /\ TruthyValue(result.v)

AllTruthy(items) == \A i \in 1..Len(items) : TruthyValue(items[i])

\* the items are evaluated in order, each at most once, and none after the
\* first falsy one
InOrderShortCircuit(items, evaluated) ==
    /\ \A k \in 1..Len(evaluated) : evaluated[k] = k
    /\ \A k \in 1..Len(evaluated) :
          \A j \in 1..(evaluated[k] - 1) : TruthyValue(items[j])

AndCalled == exPc = "called" /\ exClass = "AND"

\* C23: for every non-empty list of items, a list of one item included, the
\* result of AND(items)(context, event) is truthy exactly when every item
\* evaluates to a truthy value, the items are evaluated in order and no item
\* after the first falsy one is evaluated
C23_AndOfAll ==
    (AndCalled /\ Len(exItems) >= 1) =>
        /\ Truthy(exResult) <=> AllTruthy(exItems)
        /\ InOrderShortCircuit(exItems, exEvaluated)

\* the same for lists of two or more items
C23_AndOfTwoOrMore ==
    (AndCalled /\ Len(exItems) >= 2) =>
        /\ exResult.kind = "value"
        /\ Truthy(exResult) <=> AllTruthy(exItems)
        /\ InOrderShortCircuit(exItems, exEvaluated)

\* AND of one item returns the item itself, unevaluated
C23_SingleItem ==
    (AndCalled /\ Len(exItems) = 1) =>
        (exResult = ItemObject(1) /\ exEvaluated = << >>)

AllEqual(items) == \A i \in 1..(Len(items) - 1) : items[i] = items[i + 1]

EqualsCalled == exPc = "called" /\ exClass = "EQUALS"

\* the result is the bool True
IsTrue(result) == result = Value(1)

\* C24: for every list of two or more items, lists of three items and values
\* other than 0 and 1 included, EQUALS(items)(context, event) is True exactly
\* when every adjacent pair of item values is equal
C24_EqualsOfAll ==
    (EqualsCalled /\ Len(exItems) >= 2) => (IsTrue(exResult) <=> AllEqual(exItems))

\* the same for lists of exactly two items
C24_EqualsOfTwo ==
    (EqualsCalled /\ Len(exItems) = 2) => (IsTrue(exResult) <=> AllEqual(exItems))

\* with three or more items the result compares the bool of the first
\* comparisons with the last item
C24_ComparesBool ==
    (EqualsCalled /\ Len(exItems) = 3) =>
        exResult = Value(PyEq(PyEq(exItems[1], exItems[2]), exItems[3]))

(***************************************************************************)
(* Claims about the exit code and the ticks of the exit phase              *)
(***************************************************************************)
\* run() has returned
Returned == phase = "closed" /\ exitCode # -1

\* C25: run() returns 0 only when the application exited cleanly: when
\* main() ended with an exception the exit code is not 0
C25_ExitCodeTellsCrash == (Returned /\ mainTask = "raised") => exitCode # 0

\* whatever happened in the run phase, run() returns 0
C25_AlwaysZero == Returned => exitCode = 0

\* C27: once Application.exit! has been published, no Application.tick!
\* and no Application.tick/N! is published any more
C27_NoTickAfterExit ==
    [][published.exit >= 1 =>
          /\ published'.tick = published.tick
          /\ published'.tickN = published.tickN]_vars

\* when main() returned (or did not end), no tick follows exit!
C27_NoTickAfterCleanExit ==
    [][(published.exit >= 1 /\ mainTask # "raised") =>
          /\ published'.tick = published.tick
          /\ published'.tickN = published.tickN]_vars

(***************************************************************************)
(* Claims about the fields DutyCycle.set leaves alone and about the        *)
(* exceptions of flush                                                     *)
(***************************************************************************)
\* the step is one call of DutyCycle.set
DcSetStep == dcLast'.op = "set" /\ dcCalls' = dcCalls + 1

\* what a reader of field g sees: the record of every name and the values
Observed(fieldset, init, g) ==
    [actuals |-> [k \in 1..Len(fieldset[g].actuals) |->
                    [name |-> fieldset[g].actuals[k].name,
                     rec |-> Deref(fieldset[g].actuals[k], init)]],
     values |-> fieldset[g].values]

\* the fields other than the one the step wrote, with other tags, read the
\* same before and after the step
OtherFieldsUnchanged ==
    LET f == dcLast'.field
    IN \A g \in 1..Len(dcFieldset) :
          (g # f /\ dcFieldset[g].tags # dcFieldset'[f].tags) =>
              Observed(dcFieldset', dcInit', g) = Observed(dcFieldset, dcInit, g)

\* C28: DutyCycle.set on the field of one tag set leaves the actuals and the
\* values of every field with a different tag set unchanged, also for a
\* metric constructed with init_values whose fields were not flushed yet
C28_SetLeavesOtherFields == [][DcSetStep => OtherFieldsUnchanged]_vars

\* the same for a metric constructed without init_values
C28_WithoutInitValues ==
    [][(DcSetStep /\ dcInit = << >>) => OtherFieldsUnchanged]_vars

\* C29: flush(now) completes without raising an error in every reachable
\* state, a field that tracks no names yet included; here for DutyCycle
C29_FlushNeverRaises == dcLast.op = "flush" => dcError = "none"

\* DutyCycle.flush completes when the first field it keeps tracks a name
C29_FlushOfTrackedNames ==
    [][(dcLast'.op = "flush" /\ dcCalls' = dcCalls + 1
          /\ Len(Unexpired(dcFieldset, clock')) >= 1
          /\ Len(Unexpired(dcFieldset, clock')[1].actuals) >= 1)
       => dcError' = "none"]_vars

(***************************************************************************)
(* Claims about EPSCounter.LastTime                                        *)
(***************************************************************************)
\* the step is one call of EPSCounter.flush(now) in reset mode with
\* now > LastTime
EPSResetFlush ==
    /\ ctKind = "EPSCounter"
    /\ ctFlushes' = ctFlushes + 1
    /\ ctReset
    /\ ctLast'.now > ctLastTime

\* C30: after every EPSCounter.flush(now) with now > LastTime in reset mode
\* LastTime equals now, also when the fieldset is empty at the flush
C30_LastTimeFollowsFlush == [][EPSResetFlush => ctLastTime' = ctLast'.now]_vars

\* the same for the flushes that keep at least one field
C30_LastTimeFollowsFlushOfFields ==
    [][(EPSResetFlush /\ Len(Kept(ctFieldset, ctTime')) > 0)
       => ctLastTime' = ctLast'.now]_vars

\* a flush that keeps no field leaves LastTime as it was
C30_LastTimeKeptWithoutFields ==
    [][(EPSResetFlush /\ Len(Kept(ctFieldset, ctTime')) = 0)
       => ctLastTime' = ctLastTime]_vars

(***************************************************************************)
(* Claims about the file-system library provider                           *)
(***************************************************************************)
\* the step is one run of _on_aggr_timer
TimerRun == fsFires' = fsFires + 1

\* the subscribed paths among the buffered events
BufferedPaths(wds, events) ==
    {wds[events[i]] : i \in {j \in 1..Len(events) : events[j] \in 1..Len(wds)}}

\* the buffer after the step still starts with the events buffered before
BufferKept ==
    /\ Len(fsAggrEvents') >= Len(fsAggrEvents)
    /\ SubSeq(fsAggrEvents', 1, Len(fsAggrEvents)) = fsAggrEvents

\* one run of the timer handler publishes exactly one change! for each
\* distinct subscribed path among the buffered events and empties the buffer
AdvertisedAndEmptied ==
    /\ fsAggrEvents' = << >>
    /\ \A p \in FsPaths :
          fsPublished'[p] =
              IF p \in BufferedPaths(fsWDs, fsAggrEvents) THEN 1 ELSE 0

\* buffered events leave the buffer only in a run of the timer handler that
\* publishes the subscribed path of each of them
ClearedOnlyPublished ==
    BufferKept \/ (TimerRun /\ \A i \in 1..Len(fsAggrEvents) :
                                  /\ fsAggrEvents[i] \in 1..Len(fsWDs)
                                  /\ fsPublished'[fsWDs[fsAggrEvents[i]]] >= 1)

\* C26: every buffered inotify event is advertised: each run of
\* _on_aggr_timer publishes exactly one ASABLibrary.change! for each distinct
\* subscribed path among the buffered events and empties the buffer, and
\* under every interleaving of the two handlers no buffered event is cleared
\* without its subscribed path having been published
C26_BufferedEventsAdvertised ==
    [][(TimerRun => AdvertisedAndEmptied) /\ ClearedOnlyPublished]_vars

\* no interleaving of the handlers clears an event without its publication
C26_NoEventLost == [][ClearedOnlyPublished]_vars

\* the timer handler does its work when every buffered event carries a
\* descriptor of self.WDs
C26_AdvertisedWithoutOverflow ==
    [][(TimerRun /\ Unpackable(fsWDs, fsAggrEvents)) => AdvertisedAndEmptied]_vars

(***************************************************************************)
(* Claims about what a write to a metric changes                           *)
(***************************************************************************)
\* the fields that existed before the step keep their tags and values, and
\* those other than the located field f keep their actuals and expires_at
DcWriteFrame(f) ==
    /\ Len(dcFieldset') = (IF f > Len(dcFieldset) THEN f ELSE Len(dcFieldset))
    /\ \A g \in 1..Len(dcFieldset) :
          /\ dcFieldset'[g].tags = dcFieldset[g].tags
          /\ dcFieldset'[g].values = dcFieldset[g].values
          /\ g # f =>
                /\ Observed(dcFieldset', dcInit', g) = Observed(dcFieldset, dcInit, g)
                /\ dcFieldset'[g].expires_at = dcFieldset[g].expires_at

\* C31 (DutyCycle): a write changes only the actuals and expires_at of the
\* located field; the values of every field are unchanged by the write
C31_WriteChangesLocatedFieldOnly == [][DcSetStep => DcWriteFrame(dcLast'.field)]_vars

\* DutyCycle.set leaves the values of every field as they were
C31_DcValuesUnchangedByWrite ==
    [][DcSetStep => \A g \in 1..Len(dcFieldset) :
                        dcFieldset'[g].values = dcFieldset[g].values]_vars

\* the values of a DutyCycle field change in flush only
C31_DcValuesChangeInFlush ==
    [][(\E g \in 1..Len(dcFieldset) :
            g <= Len(dcFieldset') /\ dcFieldset'[g].tags = dcFieldset[g].tags
            /\ dcFieldset'[g].values # dcFieldset[g].values)
       => dcLast'.op = "flush"]_vars

\* the step is one call of add, sub or set of a counter
CtWriteStep == ctKind \in CounterKinds /\ ctWrites' = ctWrites + 1

\* Counter, EPSCounter, AggregationCounter: a write changes only the actuals
\* and expires_at of the located field, in reset and in non-reset mode
C31_CounterWriteFrame ==
    [][CtWriteStep =>
         LET f == ctLast'.field
         IN /\ Len(ctFieldset') = (IF f > Len(ctFieldset) THEN f ELSE Len(ctFieldset))
            /\ \A g \in 1..Len(ctFieldset) :
                  /\ ctFieldset'[g].tags = ctFieldset[g].tags
                  /\ ctFieldset'[g].values = ctFieldset[g].values
                  /\ g # f => ctFieldset'[g] = ctFieldset[g]]_vars

\* a write after a flush whose values differ from the actuals it leaves
C31_CounterWitness ==
    /\ ctLast.op \in {"add", "sub", "set"}
    /\ ctFlushes >= 1
    /\ \E g \in 1..Len(ctFieldset) :
          ctFieldset[g].values # Vals(ctFieldset[g].actuals)

\* Histogram: the same
C31_HistWriteFrame ==
    [][hWrites' = hWrites + 1 =>
         LET f == hLast'.field
         IN /\ Len(hFieldset') = (IF f > Len(hFieldset) THEN f ELSE Len(hFieldset))
            /\ \A g \in 1..Len(hFieldset) :
                  /\ hFieldset'[g].tags = hFieldset[g].tags
                  /\ hFieldset'[g].values = hFieldset[g].values
                  /\ g # f => hFieldset'[g] = hFieldset[g]]_vars

(***************************************************************************)
(* Claims about the order of the finalizers in the exit phase              *)
(***************************************************************************)
ServicesFinalized == \A sv \in 1..nServices : svcFin[sv] = "done"
ModulesFinalized == \A m \in 1..nModules : modFin[m] = "done"

\* C32: in the exit phase the finalize of every registered service has
\* completed before the finalize of any module is started, and the exit-time
\* governor completes only after all module finalizers have completed
C32_ServicesThenModules ==
    /\ (\E m \in 1..nModules : modFin[m] # "none") => ServicesFinalized
    /\ exitGov = "done" => (ServicesFinalized /\ ModulesFinalized)

\* the exit-time governor completed with a service and a module registered
C32_Witness ==
    /\ exitGov = "done"
    /\ nServices >= 1 /\ nModules >= 1
    /\ ServicesFinalized /\ ModulesFinalized

(***************************************************************************)
(* Claims about the cache of MySQLLookup                                   *)
(***************************************************************************)
\* the step is one call of __getitem__
LookupStep == lkLookups' = lkLookups + 1

\* C33: over any sequence of lookups and iterations _find_one queries the
\* database at most once per key; a miss stores the fetched result in the
\* cache, a not-found result too; a key already cached by a lookup or by
\* iteration is answered from the cache with the value cached; the hit and
\* miss counters together equal the number of lookups
C33_CachedLookups ==
    [][/\ \A k \in LkKeys : lkQueries'[k] <= 1
       /\ lkCounter'.hit + lkCounter'.miss = lkLookups'
       /\ LookupStep =>
            LET key == lkLast'.key
            IN IF lkCache[key].cached
               THEN /\ lkLast'.value = lkCache[key].value
                    /\ lkQueries' = lkQueries
                    /\ lkCache' = lkCache
                    /\ lkCounter'.hit = lkCounter.hit + 1
               ELSE /\ lkQueries'[key] = lkQueries[key] + 1
                    /\ lkLast'.value = find_one(lkTable, key)
                    /\ lkCache'[key] = [cached |-> TRUE, value |-> lkLast'.value]
                    /\ \A k \in LkKeys \ {key} : lkCache'[k] = lkCache[k]
                    /\ lkCounter'.miss = lkCounter.miss + 1]_vars

\* a key that is not in the table was looked up twice, and a key cached by
\* iteration only was answered by a lookup
C33_Witness ==
    /\ lkLast.op = "getitem"
    /\ \E k \in LkKeys : lkQueries[k] = 1 /\ lkCache[k].value = NoRow
    /\ lkCounter.hit >= 2
    /\ \E k \in LkKeys : lkQueries[k] = 0 /\ lkCache[k].cached

====
